---- MODULE Spec2Model ----
(***************************************************************************)
(* Model of immich_holiday_album_collector.py: the run_search worker, the  *)
(* cancel control of the window that launches it, and the repository the   *)
(* worker talks to (albums, people, assets).                                *)
(*                                                                         *)
(* A datetime is a record [year, month, day]: every datetime the program   *)
(* builds is a midnight.  Arithmetic on datetimes goes through the         *)
(* proleptic Gregorian ordinal, as Python's datetime does.                 *)
(***************************************************************************)
EXTENDS Integers, Sequences, FiniteSets, TLC

\* ------------------------------------------------------------------ bounds
\* Largest number of years in the year range of a run.
MaxSpan == 2
\* Largest delta_days of a run of the worker.
MaxDelta == 1
\* Largest delta_days handed to get_date_range on its own.
MaxWindowDelta == 8
\* Longest candidate list a name search answers with.
MaxCandidates == 3
\* Most parts a people text has when it is resolved on its own.
MaxParts == 3
\* How often Run is pressed when runs follow one another.
MaxRuns == 2
\* Most pages of people the listing asks for.
MaxPages == 2

\* ---------------------------------------------------------------- calendar
IsLeap(y) == (y % 4 = 0) /\ ((y % 100 # 0) \/ (y % 400 = 0))

DaysInMonth(y, m) ==
    IF m = 2 THEN (IF IsLeap(y) THEN 29 ELSE 28)
    ELSE IF m \in {4, 6, 9, 11} THEN 30 ELSE 31

DaysBeforeMonth(y, m) ==
    <<0, 31, 59, 90, 120, 151, 181, 212, 243, 273, 304, 334>>[m]
      + (IF m > 2 /\ IsLeap(y) THEN 1 ELSE 0)

DaysBeforeYear(y) ==
    (y - 1) * 365 + ((y - 1) \div 4) - ((y - 1) \div 100) + ((y - 1) \div 400)

\* datetime(year, month, day) raises ValueError on a date that does not exist.
ValidDate(y, m, d) == m \in 1..12 /\ d >= 1 /\ d <= DaysInMonth(y, m)

Date(y, m, d) == [year |-> y, month |-> m, day |-> d]

\* datetime.toordinal()
ToOrdinal(dt) == DaysBeforeYear(dt.year) + DaysBeforeMonth(dt.year, dt.month) + dt.day

\* datetime.fromordinal(), as CPython's _ord2ymd computes it.
FromOrdinal(o) ==
    LET n0   == o - 1
        n400 == n0 \div 146097
        r400 == n0 % 146097
        n100 == r400 \div 36524
        r100 == r400 % 36524
        n4   == r100 \div 1461
        r4   == r100 % 1461
        n1   == r4 \div 365
        r1   == r4 % 365
        y    == n400 * 400 + 1 + n100 * 100 + n4 * 4 + n1
    IN  IF n1 = 4 \/ n100 = 4
        THEN Date(y - 1, 12, 31)
        ELSE LET m == CHOOSE k \in 1..12 :
                        /\ DaysBeforeMonth(y, k) <= r1
                        /\ r1 < DaysBeforeMonth(y, k) + DaysInMonth(y, k)
             IN  Date(y, m, r1 - DaysBeforeMonth(y, m) + 1)

\* d + timedelta(days=n)
AddDays(dt, n) == FromOrdinal(ToOrdinal(dt) + n)

\* datetime.weekday(): Monday is 0.
Weekday(dt) == (ToOrdinal(dt) + 6) % 7

get_fixed_date(year, month, day) == Date(year, month, day)

\* while d.weekday() != weekday: d += timedelta(days=1)
RECURSIVE StepForwardTo(_, _)
StepForwardTo(d, weekday) ==
    IF Weekday(d) # weekday THEN StepForwardTo(AddDays(d, 1), weekday) ELSE d

\* while d.weekday() != weekday: d -= timedelta(days=1)
RECURSIVE StepBackTo(_, _)
StepBackTo(d, weekday) ==
    IF Weekday(d) # weekday THEN StepBackTo(AddDays(d, 0 - 1), weekday) ELSE d

\* get_nth_weekday_of_month that adds nth whole weeks.
get_nth_weekday_of_month_adds_nth(year, month, weekday, nth) ==
    AddDays(StepForwardTo(Date(year, month, 1), weekday), 7 * nth)

get_nth_weekday_of_month(year, month, weekday, nth) ==
    AddDays(StepForwardTo(Date(year, month, 1), weekday), 7 * (nth - 1))

\* get_last_weekday_of_month that starts at day 30 of the month.
get_last_weekday_of_month_from_30(year, month, weekday) ==
    StepBackTo(Date(year, month, 30), weekday)

get_last_weekday_of_month(year, month, weekday) ==
    StepBackTo(Date(year, month, DaysInMonth(year, month)), weekday)

\* get_easter_date without the correction m.
get_easter_date_uncorrected(year) ==
    LET a == year % 19
        b == year \div 100
        c == year % 100
        d == b \div 4
        e == b % 4
        f == (b + 8) \div 25
        g == (b - f + 1) \div 3
        h == (19 * a + b - d - g + 15) % 30
        i == c \div 4
        k == c % 4
        l == (32 + 2 * e + 2 * i - h - k) % 7
        month == (h + l + 114) \div 31
        day   == ((h + l + 114) % 31) + 1
    IN  Date(year, month, day)

get_easter_date(year) ==
    LET a == year % 19
        b == year \div 100
        c == year % 100
        d == b \div 4
        e == b % 4
        f == (b + 8) \div 25
        g == (b - f + 1) \div 3
        h == (19 * a + b - d - g + 15) % 30
        i == c \div 4
        k == c % 4
        l == (32 + 2 * e + 2 * i - h - k) % 7
        m == (a + 11 * h + 22 * l) \div 451
        month == (h + l - 7 * m + 114) \div 31
        day   == ((h + l - 7 * m + 114) % 31) + 1
    IN  Date(year, month, day)

DEFAULT_HOLIDAYS ==
    << "New Year's Day", "Martin Luther King Jr. Day", "Presidents' Day", "Easter",
       "Memorial Day", "Juneteenth", "Independence Day", "Labor Day", "Columbus Day",
       "Halloween", "Veterans Day", "Thanksgiving", "Christmas" >>

\* A result is [ok |-> TRUE, date |-> d] or [ok |-> FALSE] for a raised ValueError.
Ok(d) == [ok |-> TRUE, date |-> d]
Raised == [ok |-> FALSE]

get_holiday_date(year, holiday_name) ==
    CASE holiday_name = "New Year's Day" -> Ok(get_fixed_date(year, 1, 1))
      [] holiday_name = "Martin Luther King Jr. Day" -> Ok(get_nth_weekday_of_month(year, 1, 0, 3))
      [] holiday_name = "Presidents' Day" -> Ok(get_nth_weekday_of_month(year, 2, 0, 3))
      [] holiday_name = "Easter" -> Ok(get_easter_date(year))
      [] holiday_name = "Memorial Day" -> Ok(get_last_weekday_of_month(year, 5, 0))
      [] holiday_name = "Juneteenth" -> Ok(get_fixed_date(year, 6, 19))
      [] holiday_name = "Independence Day" -> Ok(get_fixed_date(year, 7, 4))
      [] holiday_name = "Labor Day" -> Ok(get_nth_weekday_of_month(year, 9, 0, 1))
      [] holiday_name = "Columbus Day" -> Ok(get_nth_weekday_of_month(year, 10, 0, 2))
      [] holiday_name = "Halloween" -> Ok(get_fixed_date(year, 10, 31))
      [] holiday_name = "Veterans Day" -> Ok(get_fixed_date(year, 11, 11))
      [] holiday_name = "Thanksgiving" -> Ok(get_nth_weekday_of_month(year, 11, 3, 4))
      [] holiday_name = "Christmas" -> Ok(get_fixed_date(year, 12, 25))
      [] OTHER -> Raised

\* specific_date.replace(year=year): ValueError for Feb 29 in a common year.
ReplaceYear(dt, year) ==
    IF ValidDate(year, dt.month, dt.day) THEN Ok(Date(year, dt.month, dt.day)) ELSE Raised

\* get_date_range with the day of the end bound taken in.
get_date_range_inclusive(base_date, delta) ==
    IF delta = 0
    THEN <<base_date, AddDays(base_date, 1)>>
    ELSE <<AddDays(base_date, 0 - delta), AddDays(base_date, delta + 1)>>

\* run_search.get_date_range: the pair (start, end) of the search window.
get_date_range(base_date, delta) ==
    IF delta = 0
    THEN LET day_start == Date(base_date.year, base_date.month, base_date.day)
         IN  <<day_start, AddDays(day_start, 1)>>
    ELSE <<AddDays(base_date, 0 - delta), AddDays(base_date, delta)>>

\* -------------------------------------------------------------- repository
\* search_assets_by_date_range: page_size = 100
page_size == 100

\* The people the repository knows: several share a name or a part of one.
PersonDirectory ==
    << [id |-> "u1", name |-> "Jo"],   [id |-> "u2", name |-> "Jo Ann"],
       [id |-> "u3", name |-> "Alex"], [id |-> "u4", name |-> "Alex"] >>

\* GET /search/person?name=: the people whose name contains the given text.
PersonSearchResponse(name) ==
    CASE name \in {"Jo", "jo", "J"} -> SubSeq(PersonDirectory, 1, 2)
      [] name = "Ann"          -> SubSeq(PersonDirectory, 2, 2)
      [] name = "Alex"         -> SubSeq(PersonDirectory, 3, 4)
      [] OTHER                 -> << >>

\* The assets of the repository are numbered; each was taken at noon of a day
\* and shows some people.  More than one page of them falls on one day.
\* Asset 0 is the one an upload adds while a run is under way; the search
\* lists it first.
StoredAssets(withUpload) == (IF withUpload THEN {0} ELSE {}) \cup 1..(page_size + 6)

AssetTaken(n) ==
    CASE n <= page_size + 1 -> Date(2023, 12, 25)
      [] n = page_size + 2  -> Date(2023, 12, 24)
      [] n = page_size + 3  -> Date(2024, 12, 25)
      [] n = page_size + 4  -> Date(2024, 2, 29)
      [] n = page_size + 5  -> Date(2024, 12, 25)
      [] OTHER              -> Date(2024, 3, 31)

AssetPeople(n) ==
    CASE n <= page_size     -> {"u1"}
      [] n = page_size + 1  -> {"u1", "u2"}
      [] n = page_size + 2  -> {"u2"}
      [] n = page_size + 3  -> {"u1", "u2"}
      [] n = page_size + 4  -> {"u2"}
      [] n = page_size + 5  -> {"u1"}
      [] OTHER              -> {}

Range(seq) == {seq[i] : i \in DOMAIN seq}

\* The assets a POST /search/metadata payload matches: taken inside the window
\* and showing every person of personIds.
Matching(payload, withUpload) ==
    LET after  == ToOrdinal(payload.takenAfter)
        before == ToOrdinal(payload.takenBefore)
        wanted == IF "personIds" \in DOMAIN payload THEN Range(payload.personIds) ELSE {}
    IN  {n \in StoredAssets(withUpload) :
            /\ after <= ToOrdinal(AssetTaken(n))
            /\ ToOrdinal(AssetTaken(n)) < before
            /\ wanted \subseteq AssetPeople(n)}

\* A set of asset ids as a list, in the order of the ids.
SetToSeq(S) == SelectSeq([i \in 1..(page_size + 7) |-> i - 1], LAMBDA n : n \in S)

\* The items of the response to a POST /search/metadata: page `page` of size `size`.
SearchResponse(payload, withUpload) ==
    LET all  == SetToSeq(Matching(payload, withUpload))
        from == (payload.page - 1) * payload.size + 1
        to   == IF payload.page * payload.size < Len(all)
                THEN payload.page * payload.size ELSE Len(all)
    IN  SubSeq(all, from, to)

\* dict.update(): the keys of g overwrite those of f.
DictUpdate(f, g) ==
    [k \in (DOMAIN f) \cup (DOMAIN g) |-> IF k \in DOMAIN g THEN g[k] ELSE f[k]]

\* dict.pop(key, None): the dict without the key.
DictWithout(f, key) == [k \in (DOMAIN f) \ {key} |-> f[k]]

EmptyDict == [k \in {} |-> 0]

\* ------------------------------------------------------------------ inputs
\* UUID_PATTERN.match(token): the texts that are person UUIDs.
UUID_PATTERN(token) == token \in {"u1", "u2", "u3", "u4"}

\* str.lower() on the names and tokens of the model.
Lower(str) ==
    CASE str = "Jo" -> "jo"
      [] str = "Jo Ann" -> "jo ann"
      [] str = "Ann" -> "ann"
      [] str = "Alex" -> "alex"
      [] str = "Zed" -> "zed"
      [] str = "Xmas" -> "xmas"
      [] str = "Holidays" -> "holidays"
      [] OTHER -> str

\* A filter text that sets the keys the search sets itself.
ReservedKeysText ==
    "{\"takenAfter\": \"2000-01-01\", \"takenBefore\": \"2000-01-02\", \"page\": 7, \"size\": 5, \"isFavorite\": true}"

\* parse_additional_filters_json on the filter texts of the model:
\* <<dict, error>>, error = "" for None.  The value of personIds is kept with
\* its JSON type.
parse_additional_filters_json(filters_text) ==
    CASE filters_text = "" -> <<EmptyDict, "">>
      [] filters_text = "{\"personIds\": [\"u2\"]}" ->
            <<[personIds |-> [type |-> "list", items |-> <<"u2">>]], "">>
      [] filters_text = "{\"personIds\": [\"u2\", \"u3\", \"u2\"]}" ->
            <<[personIds |-> [type |-> "list", items |-> <<"u2", "u3", "u2">>]], "">>
      [] filters_text = "{\"personIds\": []}" ->
            <<[personIds |-> [type |-> "list", items |-> << >>]], "">>
      [] filters_text = "{\"personIds\": \"u2\"}" ->
            <<[personIds |-> [type |-> "str", items |-> << >>]], "">>
      [] filters_text = ReservedKeysText ->
            <<[takenAfter |-> Date(2000, 1, 1), takenBefore |-> Date(2000, 1, 2),
               page |-> 7, size |-> 5, isFavorite |-> TRUE], "">>
      [] filters_text = "[1]" -> <<EmptyDict, "Additional filters must be a JSON object">>
      [] OTHER -> <<EmptyDict, "Invalid JSON for additional filters">>

\* isinstance(person_ids_from_filters, list) and all(isinstance(p, str) ...)
IsListOfStrings(v) == v.type = "list"

Years == 2023..(2022 + MaxSpan)
\* Ranges that start in a common year and ranges that start in a leap year.
YearRanges == {<<2023, e>> : e \in Years} \cup {<<2024, e + 1>> : e \in Years}
Deltas == {0, MaxDelta}

\* selected_items: the (target, album name) pairs in the order of the dict.
Selections ==
    { << <<"Christmas", "Christmas">> >>,
      << <<"Specific Date", "Birthday">> >>,
      << <<"Specific Date", "Xmas">>, <<"Christmas", "Xmas">> >>,
      << <<"Easter", "Holidays">>, <<"Christmas", "holidays">> >> }

\* The album lists the repository may hold before a run.
InitialAlbums ==
    { << >>,
      << [id |-> 1, albumName |-> "holidays"], [id |-> 2, albumName |-> "Xmas"],
         [id |-> 3, albumName |-> "Xmas"] >> }

\* specific_date_str with specific_date_all_years.
SpecificChoices ==
    { <<<<2024, 2, 29>>, TRUE>>, <<<<2024, 2, 29>>, FALSE>>, <<<<2023, 12, 25>>, TRUE>> }

HasSpecific(sel) == \E i \in DOMAIN sel : sel[i][1] = "Specific Date"

\* The people filter of a run: people_text as its comma separated parts,
\* people_match_mode and additional_filters_text.
PeopleChoices ==
    { [people |-> << >>, mode |-> "any", filters |-> ""],
      [people |-> << >>, mode |-> "any", filters |-> "{\"personIds\": [\"u2\"]}"],
      [people |-> <<"u1">>, mode |-> "all", filters |-> ""],
      [people |-> <<"u1">>, mode |-> "any", filters |-> "{\"personIds\": [\"u2\"]}"],
      [people |-> <<"u1">>, mode |-> "all", filters |-> "{\"personIds\": [\"u2\"]}"],
      [people |-> <<"u1", "u2">>, mode |-> "any", filters |-> ""],
      [people |-> <<"u1", "u2">>, mode |-> "all", filters |-> ""],
      [people |-> <<"u2", "u1", "u2">>, mode |-> "all", filters |-> ""],
      [people |-> <<"Jo", "Ann">>, mode |-> "any", filters |-> ""],
      [people |-> <<"Alex">>, mode |-> "any", filters |-> ""],
      [people |-> <<"u1", "Zed">>, mode |-> "any", filters |-> ""],
      [people |-> <<"u1">>, mode |-> "any", filters |-> ReservedKeysText],
      [people |-> << >>, mode |-> "any", filters |-> "{\"personIds\": \"u2\"}"],
      [people |-> << >>, mode |-> "any", filters |-> "[1]"],
      [people |-> << >>, mode |-> "any", filters |-> "{bad"] }

FewPeopleChoices ==
    { [people |-> << >>, mode |-> "any", filters |-> ""],
      [people |-> <<"Jo", "u2">>, mode |-> "any", filters |-> ""],
      [people |-> <<"u2", "u1">>, mode |-> "all", filters |-> ""] }

\* People filters whose ids come from both sources, repeat, or are none.
RichPeopleChoices ==
    { [people |-> <<"Jo", "u3", "Ann", "u1">>, mode |-> "any",
       filters |-> "{\"personIds\": [\"u2\", \"u3\", \"u2\"]}"],
      [people |-> <<"u2">>, mode |-> "all", filters |-> "{\"personIds\": [\"u2\"]}"],
      [people |-> <<"jo", "u2", "Jo">>, mode |-> "all", filters |-> ""],
      [people |-> <<"u1", "J">>, mode |-> "any", filters |-> ""],
      [people |-> <<"# note", "">>, mode |-> "any", filters |-> ""],
      [people |-> << >>, mode |-> "all", filters |-> "{\"personIds\": []}"] }

Config(url, sel, alb, yr, sd, ay, dl, pc) ==
    [ API_BASE_URL |-> url, selected_items |-> sel, albums |-> alb,
      start_year |-> yr[1], end_year |-> yr[2],
      specific_date_str |-> sd, specific_date_all_years |-> ay, delta_days |-> dl,
      people |-> pc.people, people_match_mode |-> pc.mode,
      additional_filters_text |-> pc.filters ]

\* The runs the model starts: one family varies the people filter on a single
\* holiday, the other varies the targets, their albums and the year range.
Configs ==
    {Config("http://immich/api", << <<"Christmas", "Christmas">> >>, << >>, yr,
            <<2023, 12, 25>>, FALSE, dl, pc) :
        yr \in YearRanges, dl \in Deltas, pc \in PeopleChoices}
    \cup
    {Config("http://immich/api", sel, alb, yr, sc[1], sc[2], MaxDelta, pc) :
        sel \in {s \in Selections : HasSpecific(s)},
        alb \in InitialAlbums, yr \in YearRanges, sc \in SpecificChoices,
        pc \in FewPeopleChoices}
    \cup
    {Config("http://immich/api", sel, alb, yr, <<2023, 12, 25>>, FALSE, MaxDelta, pc) :
        sel \in {s \in Selections : Len(s) > 1 /\ ~HasSpecific(s)},
        alb \in InitialAlbums, yr \in YearRanges, pc \in FewPeopleChoices}
    \cup
    {Config("http://immich/api", << <<"Christmas", "Christmas">> >>, << >>, <<2023, 2023>>,
            <<2023, 12, 25>>, FALSE, 0, pc) : pc \in RichPeopleChoices}
    \cup
    {Config("", << <<"Christmas", "Christmas">> >>, << >>, <<2023, 2023>>,
            <<2023, 12, 25>>, FALSE, 0, [people |-> << >>, mode |-> "any", filters |-> ""])}

\* ------------------------------------------------------------------- state
VARIABLES
    cfg,                 \* the arguments of run_search, API_BASE_URL, the albums at start
    pc,                  \* where the worker thread is
    stop_event,          \* threading.Event: TRUE when set
    cancel_button,       \* state of the Cancel button
    run_button,          \* state of the Run button
    runs_left,           \* how often Run will still be pressed
    status_var,          \* the text of the status label
    progress_bar,        \* <<value, maximum>> of the progress bar
    drained,             \* how many status and progress events were taken off the queue
    statuses,            \* the status events put on progress_queue, in order
    progress,            \* the progress events put on progress_queue, in order
    albums,              \* repository: the album list GET /albums returns
    uploaded,            \* repository: an asset was uploaded during the run
    attached,            \* repository: the <<album id, asset id>> pairs
    calls,               \* the network calls issued, in order
    additional_filters,  \* run_search locals
    combined_person_ids,
    resolved_ids,        \* resolve_person_ids locals
    token_index,
    total_tasks,
    current_progress,
    total_assets_added,
    target_index,        \* which target of TaskTargets the loops are at
    iteration,           \* how many years of the target are behind
    album_id,
    window,              \* <<start_search_date, end_search_date>>
    person_index,        \* search_assets_for_date_range locals
    intersection,
    union,
    filters,
    current_page,        \* search_assets_by_date_range locals
    all_asset_ids,
    asset_ids,           \* what the search handed to add_assets_to_album
    lookups,             \* the album id find_or_create_album returned, per target
    steps,               \* the searches and attach steps begun, in order
    observed,            \* a poll of stop_event has seen it set
    raised,              \* an exception was raised inside the try block
    outcome,             \* how run_search ended
    value_error,         \* the ValueError resolve_person_ids raised
    fn                   \* argument and result of a function applied on its own

gui    == <<cancel_button, run_button, runs_left, status_var, progress_bar, drained>>
queue  == <<statuses, progress>>
repo   == <<albums, uploaded, attached>>
people == <<additional_filters, combined_person_ids, resolved_ids, token_index>>
loop   == <<total_tasks, current_progress, total_assets_added, target_index,
            iteration, album_id, window, lookups>>
search == <<person_index, intersection, union, filters, current_page,
            all_asset_ids, asset_ids>>
hist   == <<calls, steps, observed, raised, outcome, value_error>>
vars   == <<cfg, pc, stop_event, gui, queue, repo, people, loop, search, hist, fn>>

NoError == [id |-> "", error |-> "", names |-> << >>]

None == [isNone |-> TRUE, ids |-> {}]
Some(S) == [isNone |-> FALSE, ids |-> S]

NoWindow == <<Date(1, 1, 1), Date(1, 1, 1)>>

InitRun ==
    /\ pc = "idle"
    /\ stop_event = FALSE
    /\ cancel_button = "disabled"
    /\ run_button = "normal"
    /\ status_var = "Ready"
    /\ progress_bar = <<0, 100>>
    /\ drained = <<0, 0>>
    /\ statuses = << >>
    /\ progress = << >>
    /\ albums = cfg.albums
    /\ uploaded = FALSE
    /\ attached = {}
    /\ calls = << >>
    /\ additional_filters = EmptyDict
    /\ combined_person_ids = << >>
    /\ resolved_ids = << >>
    /\ token_index = 1
    /\ total_tasks = 0
    /\ current_progress = 0
    /\ total_assets_added = 0
    /\ target_index = 1
    /\ iteration = 0
    /\ album_id = 0
    /\ window = NoWindow
    /\ person_index = 1
    /\ intersection = None
    /\ union = {}
    /\ filters = EmptyDict
    /\ current_page = 1
    /\ all_asset_ids = << >>
    /\ asset_ids = << >>
    /\ lookups = << >>
    /\ steps = << >>
    /\ observed = FALSE
    /\ raised = FALSE
    /\ outcome = "none"
    /\ value_error = NoError

Init ==
    /\ cfg \in Configs
    /\ InitRun
    /\ runs_left = 1
    /\ fn = << >>

\* ----------------------------------------------------------------- helpers
\* set_status(text)
set_status(q, text) == Append(q, text)

\* set_progress that takes the value for the maximum.
set_progress_to_value(q, value, max_value) == Append(q, <<value, value>>)

\* set_progress(value, max_value)
set_progress(q, value, max_value) == Append(q, <<value, max_value>>)

\* A network call as the log keeps it: what was called, for which target, with
\* what, whether stop_event was set when it was issued, and whether the
\* total had been published by then.
Call(op, arg) ==
    [op |-> op, target |-> target_index, arg |-> arg, stop |-> stop_event,
     published |-> (progress # << >>)]

\* The order run_search works the targets in: the specific date first, then
\* the holidays in the order of selected_items.
TaskTargets(sel) ==
    SelectSeq(sel, LAMBDA it : it[1] = "Specific Date")
      \o SelectSeq(sel, LAMBDA it : it[1] # "Specific Date")

Targets == TaskTargets(cfg.selected_items)

\* How often the year loop of a target runs.
Iterations(target) ==
    IF target[1] = "Specific Date" /\ ~cfg.specific_date_all_years
    THEN 1
    ELSE cfg.end_year - cfg.start_year + 1

\* TotalTasks with the end year left out of the range.
TotalTasksExclusiveEnd ==
    LET sel == cfg.selected_items
        span == cfg.end_year - cfg.start_year
        specific == IF HasSpecific(sel)
                    THEN (IF cfg.specific_date_all_years THEN span ELSE 1)
                    ELSE 0
        holidays == Len(SelectSeq(sel, LAMBDA it : it[1] # "Specific Date"))
    IN  specific + holidays * span

\* Lines 572-581: the total the progress bar is given.
TotalTasks ==
    LET sel == cfg.selected_items
        span == cfg.end_year - cfg.start_year + 1
        specific == IF HasSpecific(sel)
                    THEN (IF cfg.specific_date_all_years THEN span ELSE 1)
                    ELSE 0
        holidays == Len(SelectSeq(sel, LAMBDA it : it[1] # "Specific Date"))
    IN  specific + holidays * span

\* MergeIds that appends every id.
MergeIdsKeepsAll(into, ids) == into \o ids

\* Lines 553-556 and 566-569: append the ids not seen yet, in order.
RECURSIVE MergeIds(_, _)
MergeIds(into, ids) ==
    IF ids = << >> THEN into
    ELSE MergeIds(IF Head(ids) \in Range(into) THEN into ELSE Append(into, Head(ids)),
                  Tail(ids))

\* datetime.strptime(specific_date_str, "%Y-%m-%d")
strptime(str) ==
    IF ValidDate(str[1], str[2], str[3]) THEN Ok(Date(str[1], str[2], str[3])) ELSE Raised

\* The base date of the task the loops are at.
BaseDate(target) ==
    IF target[1] = "Specific Date"
    THEN (IF cfg.specific_date_all_years
          THEN ReplaceYear(strptime(cfg.specific_date_str).date, cfg.start_year + iteration)
          ELSE strptime(cfg.specific_date_str))
    ELSE get_holiday_date(cfg.start_year + iteration, target[1])

\* SearchPayload that lets the filters of the caller overwrite its keys.
SearchPayloadFiltersLast(extra, start_date, end_date, page) ==
    DictUpdate(DictUpdate([withDeleted |-> FALSE],
                          [takenAfter |-> start_date, takenBefore |-> end_date,
                           size |-> page_size, page |-> page]),
               extra)

\* Lines 313-321: the payload of one page request.
SearchPayload(extra, start_date, end_date, page) ==
    DictUpdate(DictUpdate([withDeleted |-> FALSE], extra),
               [takenAfter |-> start_date, takenBefore |-> end_date,
                size |-> page_size, page |-> page])

\* PersonFilters that asks for all the people of the run at once.
PersonFiltersSendsAll(extra, person_id) == DictUpdate(extra, [personIds |-> combined_person_ids])

\* Lines 474-475, 483-484, 494-495: the filters of a search for one person.
\* PersonFilters that leaves the person out.
PersonFiltersSendsNone(extra, person_id) == extra

PersonFilters(extra, person_id) == DictUpdate(extra, [personIds |-> <<person_id>>])

\* Intersect that keeps the ids of the last person only.
IntersectKeepsLast(acc, ids) == Some(ids)

\* Intersect that adds the ids to those it has.
IntersectUnites(acc, ids) == IF acc.isNone THEN Some(ids) ELSE Some(acc.ids \cup ids)

\* Line 486: intersection = ids if intersection is None else (intersection & ids)
Intersect(acc, ids) == IF acc.isNone THEN Some(ids) ELSE Some(acc.ids \cap ids)

\* Line 496: union.update(ids)
Unite(acc, ids) == acc \cup ids

\* AlbumMatches that takes names that differ in case for the same.
AlbumMatchesIgnoringCase(album, album_name) == Lower(album.albumName) = Lower(album_name)

\* Line 224: album.get("albumName") == album_name
AlbumMatches(album, album_name) == album.albumName = album_name

\* Lines 223-226: the first album of the list with the name, 0 when none.
FirstMatch(list, album_name) ==
    LET hits == {i \in DOMAIN list : AlbumMatches(list[i], album_name)}
    IN  IF hits = {} THEN 0 ELSE CHOOSE i \in hits : \A j \in hits : i <= j

\* The id the repository gives a new album.
NewAlbumId(list) == Len(list) + 1

\* str.strip() on the texts of the model.
Strip(str) ==
    CASE str = " jo " -> "jo"
      [] str = " u3 " -> "u3"
      [] str = " "    -> ""
      [] OTHER -> str

\* Line 399: part.split("#", 1)[0].strip(), the part without its comment.
BeforeComment(part) ==
    CASE part = "u1 # Jo" -> "u1"
      [] part = "Jo # friend" -> "Jo"
      [] part = "# note" -> ""
      [] OTHER -> part

\* Lines 403-408: the UUID a candidate starts with, else the candidate.
UuidPrefix(candidate) ==
    CASE candidate = "u2 - Ann" -> "u2"
      [] OTHER -> candidate

\* parse_people_input on people_text given as its comma and newline
\* separated parts: each part is stripped, loses its comment and is cut to
\* the UUID it starts with; what is empty is dropped.
parse_people_input(parts) ==
    LET candidate == [i \in DOMAIN parts |-> UuidPrefix(BeforeComment(Strip(parts[i])))]
    IN  SelectSeq(candidate, LAMBDA token : token # "")

\* Lines 540-542: the match mode run_search works with.
NormalizeMode(mode) == IF Lower(mode) \in {"any", "all"} THEN Lower(mode) ELSE "any"

\* The names of the model in the order sorted() gives them.
SortedNames == <<" jo ", "Alex", "Jo", "Jo Ann">>

\* match_names that lists the name of every candidate.
match_names_of_all(matches) == [i \in DOMAIN matches |-> matches[i].name]

\* Line 448: the distinct names of the matches that have one, sorted.
match_names(matches) ==
    SelectSeq(SortedNames, LAMBDA name : \E i \in DOMAIN matches : matches[i].name = name)

\* ResolvePerson that takes the first candidate when no name is exact.
ResolvePersonTakesFirst(token, matches) ==
    LET exact == SelectSeq(matches, LAMBDA p : Lower(Strip(p.name)) = Lower(token))
        person == IF Len(exact) = 1 THEN exact[1] ELSE matches[1]
    IN  IF matches = << >>
        THEN [id |-> "", error |-> "No person found", names |-> << >>]
        ELSE IF person.id = ""
        THEN [id |-> "", error |-> "missing id", names |-> << >>]
        ELSE [id |-> person.id, error |-> "", names |-> << >>]

\* Lines 434-456: the person a name token resolves to, or the ValueError
\* raised instead (error # ""); a candidate without a name has name "", one
\* without an id has id "".
ResolvePerson(token, matches) ==
    LET exact == SelectSeq(matches, LAMBDA p : Lower(Strip(p.name)) = Lower(token))
        person == IF Len(exact) = 1 THEN exact[1] ELSE matches[1]
    IN  IF matches = << >>
        THEN [id |-> "", error |-> "No person found", names |-> << >>]
        ELSE IF Len(exact) # 1 /\ Len(matches) # 1
        THEN [id |-> "", error |-> "ambiguous", names |-> match_names(matches)]
        ELSE IF person.id = ""
        THEN [id |-> "", error |-> "missing id", names |-> << >>]
        ELSE [id |-> person.id, error |-> "", names |-> << >>]

\* AfterPeople that goes back to the resolution of the people.
AfterPeopleResolvesAgain == "resolve"

\* AfterPeople that enters the try block without publishing the total.
AfterPeopleSkipsTotal == "target"

\* Where run_search goes once the people filter is resolved: lines 571-584.
AfterPeople == "total"

\* AfterExcept that goes on with the year loop.
AfterExceptGoesOn == "year"

\* Lines 664-668: after the except block, run_search is over.
AfterExcept == "done"

\* FinallyProgress that leaves the progress bar as it is.
FinallyProgressKept(q) == q

\* Line 668: the finally block resets the progress bar.
FinallyProgress(q) == set_progress(q, 0, 0)

\* add_assets_to_album that counts the call, not the ids.
add_assets_to_album_counts_calls(ids) == IF ids = << >> THEN 0 ELSE 1

\* Lines 351-353 and 366: what add_assets_to_album returns.
add_assets_to_album(ids) == IF ids = << >> THEN 0 ELSE Len(ids)

\* AttachAlbum that takes the newest album of the repository.
AttachNewestAlbum == albums[Len(albums)].id

\* Line 617: the album add_assets_to_album is called with.
AttachAlbum == album_id

\* The end of run_search from inside the try block: a last status, then the
\* finally block.
EndInTry(status_events, how) ==
    /\ statuses' = statuses \o status_events
    /\ progress' = FinallyProgress(progress)
    /\ pc' = IF how = "Failed" THEN AfterExcept ELSE "done"
    /\ raised' = (raised \/ how = "Failed")
    /\ outcome' = how

\* The end of run_search by an early return or an exception nothing catches.
EndBeforeTry(status_events, how) ==
    /\ statuses' = statuses \o status_events
    /\ pc' = "done"
    /\ outcome' = how
    /\ UNCHANGED <<progress, raised>>

\* Line 558, people_text and people_text.strip(): the text has a comma or a
\* part that is not blank.
PeopleGiven ==
    Len(cfg.people) >= 2 \/ (Len(cfg.people) = 1 /\ Strip(cfg.people[1]) # "")

\* ------------------------------------------------------------- the launcher
\* current_thread.is_alive() that never sees the thread alive.
is_alive_never == FALSE

\* current_thread.is_alive(): the worker is inside run_search.
is_alive == pc \notin {"idle", "done"}

\* A thread is started on run_search, line 1280-1298: its locals are fresh;
\* the event log of the run starts empty.
StartThread ==
    /\ pc' = "start"
    /\ statuses' = << >>
    /\ progress' = << >>
    /\ additional_filters' = EmptyDict
    /\ combined_person_ids' = << >>
    /\ resolved_ids' = << >>
    /\ token_index' = 1
    /\ total_tasks' = 0
    /\ current_progress' = 0
    /\ total_assets_added' = 0
    /\ target_index' = 1
    /\ iteration' = 0
    /\ album_id' = 0
    /\ window' = NoWindow
    /\ lookups' = << >>
    /\ person_index' = 1
    /\ intersection' = None
    /\ union' = {}
    /\ filters' = EmptyDict
    /\ current_page' = 1
    /\ all_asset_ids' = << >>
    /\ asset_ids' = << >>
    /\ calls' = << >>
    /\ steps' = << >>
    /\ observed' = FALSE
    /\ raised' = FALSE
    /\ outcome' = "none"
    /\ value_error' = NoError

\* run_search_in_background, lines 1215-1307: Run is pressed, the buttons are
\* switched and the thread is started.
Launch ==
    /\ run_button = "normal"
    /\ runs_left > 0
    /\ runs_left' = runs_left - 1
    /\ run_button' = "disabled"
    /\ cancel_button' = "normal"
    /\ StartThread
    /\ drained' = <<0, 0>>
    /\ UNCHANGED <<cfg, stop_event, status_var, progress_bar, repo, fn>>

\* cancel_run, lines 1309-1312.
cancel_run ==
    /\ cancel_button = "normal"
    /\ stop_event' = TRUE
    /\ statuses' = set_status(statuses, "Cancelling...")
    /\ cancel_button' = "disabled"
    /\ UNCHANGED <<cfg, pc, run_button, runs_left, status_var, progress_bar, drained,
                   progress, repo, people, loop, search, hist, fn>>

\* check_thread, lines 1300-1305: the worker is found dead.
check_thread ==
    /\ run_button = "disabled"
    /\ ~is_alive
    /\ run_button' = "normal"
    /\ cancel_button' = "disabled"
    /\ UNCHANGED <<cfg, pc, stop_event, runs_left, status_var, progress_bar, drained,
                   queue, repo, people, loop, search, hist, fn>>

\* update_progress, lines 1391-1403: the events on the queue are taken off in
\* order; the last status and the last progress event stay on display.
update_progress ==
    /\ drained # <<Len(statuses), Len(progress)>>
    /\ status_var' = IF drained[1] < Len(statuses) THEN statuses[Len(statuses)] ELSE status_var
    /\ progress_bar' = IF drained[2] < Len(progress) THEN progress[Len(progress)] ELSE progress_bar
    /\ drained' = <<Len(statuses), Len(progress)>>
    /\ UNCHANGED <<cfg, pc, stop_event, cancel_button, run_button, runs_left, queue, repo,
                   people, loop, search, hist, fn>>

\* --------------------------------------------------------------- the worker
\* run_search, lines 516-560: the flag is cleared, the inputs are checked and
\* the personIds of the filters are taken out.
RunSearchBegin ==
    /\ pc = "start"
    /\ stop_event' = FALSE
    /\ LET parsed == parse_additional_filters_json(cfg.additional_filters_text)
           dict   == parsed[1]
           given  == "personIds" \in DOMAIN dict
       IN  IF cfg.API_BASE_URL = ""
           THEN /\ EndBeforeTry(<<"API base URL is not configured">>, "Rejected")
                /\ UNCHANGED people
           ELSE IF parsed[2] # ""
           THEN /\ EndBeforeTry(<<"Starting", "Error">>, "Rejected")
                /\ UNCHANGED people
           ELSE IF given /\ ~IsListOfStrings(dict.personIds)
           THEN /\ EndBeforeTry(<<"Starting", "Error">>, "Rejected")
                /\ additional_filters' = DictWithout(dict, "personIds")
                /\ UNCHANGED <<combined_person_ids, resolved_ids, token_index>>
           ELSE /\ additional_filters' = DictWithout(dict, "personIds")
                /\ combined_person_ids' =
                       MergeIds(<< >>, IF given THEN dict.personIds.items ELSE << >>)
                /\ IF PeopleGiven
                   THEN /\ statuses' = statuses \o <<"Starting", "Resolving">>
                        /\ pc' = "resolve"
                   ELSE /\ statuses' = set_status(statuses, "Starting")
                        /\ pc' = AfterPeople
                /\ UNCHANGED <<resolved_ids, token_index, progress, raised, outcome>>
    /\ UNCHANGED <<cfg, value_error, gui, repo, loop, search, calls, steps, observed, fn>>

Tokens == parse_people_input(cfg.people)

\* The token the loop of resolve_person_ids is at needs a name lookup.
NeedsLookup ==
    /\ pc = "resolve"
    /\ token_index <= Len(Tokens)
    /\ ~stop_event
    /\ ~UUID_PATTERN(Tokens[token_index])

\* resolve_person_ids, lines 422-431 and 462, and run_search, lines 566-569:
\* the loop over the tokens up to the next name lookup.
ResolveStep ==
    /\ pc = "resolve"
    /\ ~NeedsLookup
    /\ IF token_index > Len(Tokens)
       THEN /\ combined_person_ids' = MergeIds(combined_person_ids, resolved_ids)
            /\ pc' = AfterPeople
            /\ UNCHANGED <<resolved_ids, token_index, observed>>
       ELSE IF stop_event
       THEN /\ observed' = TRUE
            /\ pc' = AfterPeople
            /\ UNCHANGED <<combined_person_ids, resolved_ids, token_index>>
       ELSE /\ resolved_ids' = MergeIds(resolved_ids, <<Tokens[token_index]>>)
            /\ token_index' = token_index + 1
            /\ UNCHANGED <<pc, combined_person_ids, observed>>
    /\ UNCHANGED <<cfg, value_error, stop_event, gui, queue, repo, additional_filters, loop, search,
                   calls, steps, raised, outcome, fn>>

\* search_people_by_name answers, lines 433-460; a ValueError is caught at
\* lines 562-565.
PersonSearch ==
    /\ NeedsLookup
    /\ calls' = Append(calls, Call("person_search", Tokens[token_index]))
    /\ LET person == ResolvePerson(Tokens[token_index],
                                   PersonSearchResponse(Tokens[token_index]))
       IN  IF person.error # ""
           THEN /\ EndBeforeTry(<<"Error">>, "Rejected")
                /\ value_error' = person
                /\ UNCHANGED <<resolved_ids, token_index>>
           ELSE /\ resolved_ids' = MergeIds(resolved_ids, <<person.id>>)
                /\ token_index' = token_index + 1
                /\ UNCHANGED <<pc, queue, raised, outcome, value_error>>
    /\ UNCHANGED <<cfg, stop_event, gui, repo, additional_filters, combined_person_ids,
                   loop, search, steps, observed, fn>>

\* search_people_by_name fails, lines 252-256: the RequestException is no
\* ValueError, so nothing in run_search catches it.
PersonSearchFails ==
    /\ NeedsLookup
    /\ calls' = Append(calls, Call("person_search", Tokens[token_index]))
    /\ EndBeforeTry(<<"Failed">>, "Crashed")
    /\ UNCHANGED <<cfg, value_error, stop_event, gui, repo, people, loop, search, steps, observed, fn>>

\* run_search, lines 571-584.
PublishTotal ==
    /\ pc = "total"
    /\ total_tasks' = TotalTasks
    /\ progress' = set_progress(progress, 0, TotalTasks)
    /\ current_progress' = 0
    /\ pc' = "target"
    /\ UNCHANGED <<cfg, stop_event, gui, statuses, repo, people, total_assets_added,
                   target_index, iteration, album_id, window, lookups, search, hist, fn>>

Target == Targets[target_index]

\* Line 662: the numbers the Completed status reports.
CompletedReport ==
    [assets |-> total_assets_added, albums |-> Len(cfg.selected_items)]

\* run_search, lines 662-663: every target is done.
Complete ==
    /\ pc = "target"
    /\ target_index > Len(Targets)
    /\ EndInTry(<<"Completed">>, "Completed")
    /\ UNCHANGED <<cfg, value_error, stop_event, gui, repo, people, loop, search, calls, steps,
                   observed, fn>>

\* A target whose album is to be found: lines 596-599 and 639-642.
AtAlbumList ==
    /\ pc = "target"
    /\ target_index <= Len(Targets)

\* find_or_create_album, lines 210-226: GET /albums answers.  For the specific
\* date, strptime (line 597) comes first.
AlbumList ==
    /\ AtAlbumList
    /\ IF Target[1] = "Specific Date" /\ ~strptime(cfg.specific_date_str).ok
       THEN /\ EndInTry(<<"Error">>, "Failed")
            /\ UNCHANGED <<calls, album_id, lookups, iteration>>
       ELSE /\ calls' = Append(calls, Call("album_list", Target[2]))
            /\ LET hit == FirstMatch(albums, Target[2])
               IN  IF hit # 0
                   THEN /\ album_id' = albums[hit].id
                        /\ lookups' = Append(lookups, albums[hit].id)
                        /\ iteration' = 0
                        /\ pc' = "year"
                   ELSE /\ pc' = "create"
                        /\ UNCHANGED <<album_id, lookups, iteration>>
            /\ UNCHANGED <<queue, raised, outcome>>
    /\ UNCHANGED <<cfg, value_error, stop_event, gui, repo, people, total_tasks, current_progress,
                   total_assets_added, target_index, window, search, steps, observed, fn>>

\* find_or_create_album, lines 215-219: GET /albums fails.
AlbumListFails ==
    /\ AtAlbumList
    /\ Target[1] = "Specific Date" => strptime(cfg.specific_date_str).ok
    /\ calls' = Append(calls, Call("album_list", Target[2]))
    /\ EndInTry(<<"Failed", "Error">>, "Failed")
    /\ UNCHANGED <<cfg, value_error, stop_event, gui, repo, people, loop, search, steps, observed, fn>>

\* find_or_create_album, lines 228-243: POST /albums answers.
AlbumCreate ==
    /\ pc = "create"
    /\ calls' = Append(calls, Call("album_create", Target[2]))
    /\ albums' = Append(albums, [id |-> NewAlbumId(albums), albumName |-> Target[2]])
    /\ album_id' = NewAlbumId(albums)
    /\ lookups' = Append(lookups, NewAlbumId(albums))
    /\ iteration' = 0
    /\ pc' = "year"
    /\ UNCHANGED <<cfg, value_error, stop_event, gui, queue, uploaded, attached, people, total_tasks,
                   current_progress, total_assets_added, target_index, window, search,
                   steps, observed, raised, outcome, fn>>

\* find_or_create_album, lines 236-240: POST /albums fails.
AlbumCreateFails ==
    /\ pc = "create"
    /\ calls' = Append(calls, Call("album_create", Target[2]))
    /\ EndInTry(<<"Failed", "Error">>, "Failed")
    /\ UNCHANGED <<cfg, value_error, stop_event, gui, repo, people, loop, search, steps, observed, fn>>

\* The head of the year loops, lines 602-616, 621-633 and 643-657, down to
\* the entry of search_assets_for_date_range, lines 465-476.
TaskBegin ==
    /\ pc = "year"
    /\ IF iteration >= Iterations(Target)
       THEN /\ target_index' = target_index + 1
            /\ pc' = "target"
            /\ UNCHANGED <<queue, raised, outcome, observed, steps, window, search>>
       ELSE IF stop_event
       THEN /\ observed' = TRUE
            /\ EndInTry(<<"Operation Cancelled">>, "Cancelled")
            /\ UNCHANGED <<target_index, steps, window, search>>
       ELSE IF ~BaseDate(Target).ok
       THEN /\ EndInTry(<<"Error">>, "Failed")
            /\ UNCHANGED <<target_index, observed, steps, window, search>>
       ELSE /\ window' = get_date_range(BaseDate(Target).date, cfg.delta_days)
            /\ statuses' = set_status(statuses, "Searching")
            /\ steps' = Append(steps, <<"search", target_index, iteration>>)
            /\ current_page' = 1
            /\ all_asset_ids' = << >>
            /\ person_index' = 1
            /\ intersection' = None
            /\ union' = {}
            /\ IF Len(combined_person_ids) = 0
               THEN /\ filters' = additional_filters
                    /\ pc' = "page"
               ELSE IF Len(combined_person_ids) = 1
               THEN /\ filters' = PersonFilters(additional_filters, combined_person_ids[1])
                    /\ pc' = "page"
               ELSE /\ pc' = "person"
                    /\ UNCHANGED filters
            /\ UNCHANGED <<progress, raised, outcome, observed, target_index, asset_ids>>
    /\ UNCHANGED <<cfg, value_error, stop_event, gui, repo, people, total_tasks, current_progress,
                   total_assets_added, iteration, album_id, lookups, calls, fn>>

\* search_assets_for_date_range, lines 478-497: the head of the loop over the
\* person ids, and the result after the last one.
PersonLoop ==
    /\ pc = "person"
    /\ IF person_index > Len(combined_person_ids)
       THEN /\ asset_ids' = IF NormalizeMode(cfg.people_match_mode) = "all"
                            THEN SetToSeq(intersection.ids)
                            ELSE SetToSeq(union)
            /\ pc' = "attach"
            /\ UNCHANGED <<observed, filters, current_page, all_asset_ids>>
       ELSE IF stop_event
       THEN /\ observed' = TRUE
            /\ asset_ids' = << >>
            /\ pc' = "attach"
            /\ UNCHANGED <<filters, current_page, all_asset_ids>>
       ELSE /\ filters' = PersonFilters(additional_filters, combined_person_ids[person_index])
            /\ current_page' = 1
            /\ all_asset_ids' = << >>
            /\ pc' = "page"
            /\ UNCHANGED <<observed, asset_ids>>
    /\ UNCHANGED <<cfg, value_error, stop_event, gui, queue, repo, people, loop, person_index,
                   intersection, union, calls, steps, raised, outcome, fn>>

\* LastPage that goes on until a page is empty.
LastPageWhenEmpty(assets) == assets = << >>

\* Lines 337-338 and 342-343: the page that ends the loop.
LastPage(assets) == assets = << >> \/ Len(assets) < page_size

\* InterruptedResult that hands back the pages fetched so far.
InterruptedResultKeepsPages(fetched) == fetched

\* Lines 310-312: what search_assets_by_date_range returns when its poll sees
\* stop_event set, whatever it has fetched.
InterruptedResult(fetched) == << >>

\* search_assets_by_date_range returns `result` to its caller: run_search by
\* way of lines 471 and 476, or the loops of lines 485-486 and 496.
ReturnFromSearch(result) ==
    IF Len(combined_person_ids) <= 1
    THEN /\ asset_ids' = result
         /\ pc' = "attach"
         /\ UNCHANGED <<person_index, intersection, union>>
    ELSE /\ IF NormalizeMode(cfg.people_match_mode) = "all"
            THEN /\ intersection' = Intersect(intersection, Range(result))
                 /\ UNCHANGED union
            ELSE /\ union' = Unite(union, Range(result))
                 /\ UNCHANGED intersection
         /\ person_index' = person_index + 1
         /\ pc' = "person"
         /\ UNCHANGED asset_ids

\* search_assets_by_date_range, lines 309-348: the poll, and a page request
\* that answers.
SearchPage ==
    /\ pc = "page"
    /\ IF stop_event
       THEN /\ observed' = TRUE
            /\ ReturnFromSearch(InterruptedResult(all_asset_ids))
            /\ UNCHANGED <<calls, current_page, all_asset_ids>>
       ELSE LET payload == SearchPayload(filters, window[1], window[2], current_page)
                assets  == SearchResponse(payload, uploaded)
            IN  /\ calls' = Append(calls, Call("asset_search", payload))
                /\ all_asset_ids' = all_asset_ids \o assets
                /\ IF LastPage(assets)
                   THEN /\ ReturnFromSearch(all_asset_ids \o assets)
                        /\ UNCHANGED current_page
                   ELSE /\ current_page' = current_page + 1
                        /\ UNCHANGED <<pc, asset_ids, person_index, intersection, union>>
                /\ UNCHANGED observed
    /\ UNCHANGED <<cfg, value_error, stop_event, gui, queue, repo, people, loop, filters, steps,
                   raised, outcome, fn>>

\* search_assets_by_date_range, lines 328-332: a page request fails.
SearchPageFails ==
    /\ pc = "page"
    /\ ~stop_event
    /\ calls' = Append(calls, Call("asset_search",
                     SearchPayload(filters, window[1], window[2], current_page)))
    /\ EndInTry(<<"Failed", "Error">>, "Failed")
    /\ UNCHANGED <<cfg, value_error, stop_event, gui, repo, people, loop, search, steps, observed, fn>>

\* add_assets_to_album, lines 350-366, and the end of the task, lines 617-619.
Attach ==
    /\ pc = "attach"
    /\ steps' = Append(steps, <<"attach", target_index, iteration>>)
    /\ IF asset_ids = << >>
       THEN UNCHANGED <<calls, attached>>
       ELSE /\ calls' = Append(calls, Call("album_attach",
                                          [album |-> AttachAlbum, ids |-> asset_ids]))
            /\ attached' = attached \cup {<<AttachAlbum, a>> : a \in Range(asset_ids)}
    /\ total_assets_added' = total_assets_added + add_assets_to_album(asset_ids)
    /\ current_progress' = current_progress + 1
    /\ progress' = set_progress(progress, current_progress + 1, total_tasks)
    /\ iteration' = iteration + 1
    /\ pc' = "year"
    /\ UNCHANGED <<cfg, value_error, stop_event, gui, statuses, albums, uploaded, people, total_tasks,
                   target_index, album_id, window, lookups, search, observed, raised,
                   outcome, fn>>

\* add_assets_to_album, lines 360-364: PUT /albums/{id}/assets fails.
AttachFails ==
    /\ pc = "attach"
    /\ asset_ids # << >>
    /\ steps' = Append(steps, <<"attach", target_index, iteration>>)
    /\ calls' = Append(calls, Call("album_attach",
                                  [album |-> AttachAlbum, ids |-> asset_ids]))
    /\ EndInTry(<<"Failed", "Error">>, "Failed")
    /\ UNCHANGED <<cfg, value_error, stop_event, gui, repo, people, loop, search, observed, fn>>

Next ==
    \/ Launch
    \/ cancel_run
    \/ check_thread
    \/ RunSearchBegin
    \/ ResolveStep
    \/ PersonSearch
    \/ PersonSearchFails
    \/ PublishTotal
    \/ Complete
    \/ AlbumList
    \/ AlbumListFails
    \/ AlbumCreate
    \/ AlbumCreateFails
    \/ TaskBegin
    \/ PersonLoop
    \/ SearchPage
    \/ SearchPageFails
    \/ Attach
    \/ AttachFails

Spec == Init /\ [][Next]_vars

\* The steps of the worker thread: each is a statement of run_search or a
\* network call that returns, with an answer or with an exception.
Worker ==
    \/ RunSearchBegin \/ ResolveStep \/ PersonSearch \/ PersonSearchFails
    \/ PublishTotal \/ Complete \/ AlbumList \/ AlbumListFails
    \/ AlbumCreate \/ AlbumCreateFails \/ TaskBegin \/ PersonLoop
    \/ SearchPage \/ SearchPageFails \/ Attach \/ AttachFails

\* The runs followed to their end: one or two targets over two years, with
\* and without people.
FairConfigs ==
    {Config("http://immich/api", sel, << >>, <<2023, 2024>>, <<2023, 12, 25>>, TRUE, 0, who) :
        sel \in { << <<"Christmas", "Christmas">> >>,
                  << <<"Specific Date", "Xmas">>, <<"Christmas", "Xmas">> >> },
        who \in FewPeopleChoices}

InitFair ==
    /\ cfg \in FairConfigs
    /\ InitRun
    /\ runs_left = 1
    /\ fn = << >>

\* The thread that was started keeps running: the worker takes its next
\* step as long as it has one.
SpecFair == InitFair /\ [][Next]_vars /\ WF_vars(Worker)

\* ------------------------------------- a repository that changes under a run
\* The runs looked at while the repository changes: one holiday, every people
\* filter.
LiveConfigs ==
    {Config("http://immich/api", << <<"Christmas", "Christmas">> >>, << >>, yr,
            <<2023, 12, 25>>, FALSE, 0, who) :
        yr \in {<<2023, 2023>>, <<2023, 2024>>}, who \in PeopleChoices}

InitLive ==
    /\ cfg \in LiveConfigs
    /\ InitRun
    /\ runs_left = 1
    /\ fn = << >>

\* Somebody uploads an asset while the run is under way: the answers to
\* POST /search/metadata (lines 326 and 335-336) list it from then on.
Upload ==
    /\ pc \notin {"idle", "done"}
    /\ ~uploaded
    /\ uploaded' = TRUE
    /\ UNCHANGED <<cfg, pc, stop_event, gui, queue, albums, attached, people, loop,
                   search, hist, fn>>

NextLive ==
    \/ Next
    \/ Upload

SpecLive == InitLive /\ [][NextLive]_vars

\* ------------------------------------------------- runs that follow another
\* One holiday and one year, with and without people.
AgainConfigs ==
    {Config("http://immich/api", << <<"Christmas", "Christmas">> >>, << >>, <<2023, 2023>>,
            <<2023, 12, 25>>, FALSE, 0, who) : who \in FewPeopleChoices}

\* Run is pressed again, with the same inputs, after a run is over.
InitAgain ==
    /\ cfg \in AgainConfigs
    /\ InitRun
    /\ runs_left = MaxRuns
    /\ fn = << >>

SpecAgain == InitAgain /\ [][Next]_vars

\* ------------------------------------------- the delta field as typed
\* int(text): the number a text stands for, or a ValueError.
int(text) ==
    CASE text = "0"  -> [ok |-> TRUE, value |-> 0]
      [] text = "1"  -> [ok |-> TRUE, value |-> 1]
      [] text = "-1" -> [ok |-> TRUE, value |-> 0 - 1]
      [] OTHER       -> [ok |-> FALSE, value |-> 0]

\* What delta_var can hold: the field takes any text.
DeltaTexts == {"0", "1", "-1", "", "week"}

\* run_search_in_background, lines 1234-1238: the runs that are started are
\* those whose delta text is an integer.
TypedConfigs ==
    {Config("http://immich/api", << <<"Christmas", "Christmas">> >>, << >>, <<2023, 2023>>,
            <<2023, 12, 25>>, FALSE, int(text).value, who) :
        text \in {t \in DeltaTexts : int(t).ok}, who \in FewPeopleChoices}

InitTyped ==
    /\ cfg \in TypedConfigs
    /\ InitRun
    /\ runs_left = 1
    /\ fn = << >>

SpecTyped == InitTyped /\ [][Next]_vars

\* ------------------------------------------------ the window is redrawn
\* A run beside the timer that empties the queue.
InitShown ==
    /\ cfg \in AgainConfigs
    /\ InitRun
    /\ runs_left = 1
    /\ fn = << >>

NextShown == Next \/ update_progress

SpecShown == InitShown /\ [][NextShown]_vars

\* ------------------------------------------- get_date_range on its own
\* The base dates handed to get_date_range: holidays and dates next to the
\* end of a month or of a year, in common and leap years.
WindowBases ==
    {get_holiday_date(y, h).date : y \in Years, h \in {"Christmas", "Easter", "New Year's Day"}}
      \cup {Date(2024, 2, 29), Date(2023, 2, 28), Date(2024, 3, 1), Date(2023, 12, 31)}

InitWindow ==
    /\ cfg = Config("", << <<"Christmas", "Christmas">> >>, << >>, <<2023, 2023>>,
                    <<2023, 12, 25>>, FALSE, 0,
                    [people |-> << >>, mode |-> "any", filters |-> ""])
    /\ InitRun
    /\ runs_left = 1
    /\ fn \in {[base |-> b, delta |-> d, done |-> FALSE, out |-> NoWindow] :
                 b \in WindowBases, d \in 0..MaxWindowDelta}

\* run_search.get_date_range is applied, lines 587-592.
ApplyDateRange ==
    /\ ~fn.done
    /\ fn' = [fn EXCEPT !.done = TRUE, !.out = get_date_range(fn.base, fn.delta)]
    /\ UNCHANGED <<cfg, pc, stop_event, gui, queue, repo, people, loop, search, hist>>

NextWindow == ApplyDateRange

SpecWindow == InitWindow /\ [][NextWindow]_vars

\* ----------------------------------- the resolution of one token on its own
\* The people a name search may answer with: names that differ in case and
\* blanks, two people of one name, one entry without an id.
Candidates ==
    { [id |-> "u1", name |-> "Jo"], [id |-> "u2", name |-> "Jo Ann"],
      [id |-> "u5", name |-> " jo "], [id |-> "u3", name |-> "Alex"],
      [id |-> "u4", name |-> "Alex"], [id |-> "", name |-> "Jo"] }

CandidateLists == UNION {[1..n -> Candidates] : n \in 0..MaxCandidates}

NameTokens == {"Jo", "jo", "Alex", "Ann"}

InitResolve ==
    /\ cfg = Config("", << <<"Christmas", "Christmas">> >>, << >>, <<2023, 2023>>,
                    <<2023, 12, 25>>, FALSE, 0,
                    [people |-> << >>, mode |-> "any", filters |-> ""])
    /\ InitRun
    /\ runs_left = 1
    /\ fn \in {[token |-> t, matches |-> m, done |-> FALSE, out |-> NoError] :
                 t \in NameTokens, m \in CandidateLists}

\* resolve_person_ids, lines 434-456, handles the answer of the name search.
ApplyResolvePerson ==
    /\ ~fn.done
    /\ fn' = [fn EXCEPT !.done = TRUE, !.out = ResolvePerson(fn.token, fn.matches)]
    /\ UNCHANGED <<cfg, pc, stop_event, gui, queue, repo, people, loop, search, hist>>

NextResolve == ApplyResolvePerson

SpecResolve == InitResolve /\ [][NextResolve]_vars

\* ------------------------------------------------------- get_all_people
\* get_all_people: page_size = 1000
people_page_size == 1000

\* data.get("total"): an int, or absent.
TotalAbsent == [int |-> FALSE, value |-> 0]
Total(n) == [int |-> TRUE, value |-> n]

\* The answers of GET /people: the number of people on the page,
\* hasNextPage (true, false or absent) and total.
PeopleResponses ==
    [n : {0, 1, people_page_size}, hasNextPage : {"true", "false", "absent"},
     total : {TotalAbsent, Total(1), Total(2 * people_page_size)}]

\* len(people): a page is kept as <<page, number of people>>.
RECURSIVE PeopleCount(_)
PeopleCount(pages) == IF pages = << >> THEN 0 ELSE pages[1][2] + PeopleCount(Tail(pages))

\* LastPeoplePage that ends the listing at every short page.
LastPeoplePageWhenShort(response, listed) ==
    \/ response.hasNextPage = "false"
    \/ response.total.int /\ PeopleCount(listed) >= response.total.value
    \/ response.n < people_page_size

\* Lines 291-299: the listing ends after this page.
LastPeoplePage(response, listed) ==
    \/ response.hasNextPage = "false"
    \/ response.total.int /\ PeopleCount(listed) >= response.total.value
    \/ response.hasNextPage = "absent" /\ response.n < people_page_size

\* The people picker lists the people while the main window stays in use:
\* the run it starts is over at once, its filters being refused at line 551.
InitPeople ==
    /\ cfg = Config("http://immich/api", << <<"Christmas", "Christmas">> >>, << >>,
                    <<2023, 2023>>, <<2023, 12, 25>>, FALSE, 0,
                    [people |-> << >>, mode |-> "any", filters |-> "{\"personIds\": \"u2\"}"])
    /\ InitRun
    /\ runs_left = 1
    /\ fn = [page |-> 1, people |-> << >>, requests |-> << >>, responses |-> << >>,
             done |-> FALSE, cancelled |-> FALSE, failed |-> FALSE, out |-> << >>]

\* get_all_people, lines 266-267: the flag is found set.
PeopleCancelled ==
    /\ ~fn.done
    /\ stop_event
    /\ fn' = [fn EXCEPT !.done = TRUE, !.cancelled = TRUE, !.out = << >>]
    /\ UNCHANGED <<cfg, pc, stop_event, gui, queue, repo, people, loop, search, hist>>

\* get_all_people, lines 266-301: the flag is clear and GET /people answers.
PeoplePage ==
    /\ ~fn.done
    /\ ~stop_event
    /\ fn.page <= MaxPages
    /\ \E response \in PeopleResponses :
          LET request == [page |-> fn.page, size |-> people_page_size]
              extended == Append(fn.people, <<fn.page, response.n>>)
          IN  fn' = IF response.n = 0
                    THEN [fn EXCEPT !.requests = Append(@, request),
                                    !.responses = Append(@, response),
                                    !.done = TRUE, !.out = fn.people]
                    ELSE IF LastPeoplePage(response, extended)
                    THEN [fn EXCEPT !.requests = Append(@, request),
                                    !.responses = Append(@, response),
                                    !.people = extended, !.done = TRUE, !.out = extended]
                    ELSE [fn EXCEPT !.requests = Append(@, request),
                                    !.responses = Append(@, response),
                                    !.people = extended, !.page = @ + 1]
    /\ UNCHANGED <<cfg, pc, stop_event, gui, queue, repo, people, loop, search, hist>>

\* get_all_people, lines 274-282: GET /people fails and the exception leaves
\* the function.
PeoplePageFails ==
    /\ ~fn.done
    /\ ~stop_event
    /\ fn.page <= MaxPages
    /\ fn' = [fn EXCEPT !.requests = Append(@, [page |-> fn.page, size |-> people_page_size]),
                        !.done = TRUE, !.failed = TRUE]
    /\ statuses' = set_status(statuses, "Failed")
    /\ UNCHANGED <<cfg, pc, stop_event, gui, progress, repo, people, loop, search, hist>>

NextPeople ==
    \/ Launch \/ cancel_run \/ check_thread \/ RunSearchBegin
    \/ PeoplePage \/ PeoplePageFails \/ PeopleCancelled

SpecPeople == InitPeople /\ [][NextPeople]_vars

\* ---------------------------------------- get_holiday_date on its own
\* validate_year: the years the entry fields take.
FirstYear == 1900
LastYear == 2100

HolidayNames == Range(DEFAULT_HOLIDAYS) \cup {"Boxing Day"}

InitHolidays ==
    /\ cfg = Config("", << <<"Christmas", "Christmas">> >>, << >>, <<2023, 2023>>,
                    <<2023, 12, 25>>, FALSE, 0,
                    [people |-> << >>, mode |-> "any", filters |-> ""])
    /\ InitRun
    /\ runs_left = 1
    /\ fn \in {[year |-> y, holiday_name |-> h, done |-> FALSE, out |-> Raised] :
                 y \in FirstYear..LastYear, h \in HolidayNames}

\* run_search, line 648: the date of the holiday in the year.
ApplyHolidayDate ==
    /\ ~fn.done
    /\ fn' = [fn EXCEPT !.done = TRUE, !.out = get_holiday_date(fn.year, fn.holiday_name)]
    /\ UNCHANGED <<cfg, pc, stop_event, gui, queue, repo, people, loop, search, hist>>

NextHolidays == ApplyHolidayDate

SpecHolidays == InitHolidays /\ [][NextHolidays]_vars

\* -------------------------------------- resolve_person_ids on its own
\* ResolveTokens that looks every token up by name.
RECURSIVE ResolveTokensLooksUpAll(_, _, _)
ResolveTokensLooksUpAll(tokens, ids, n) ==
    IF tokens = << >> THEN [ids |-> ids, lookups |-> n, error |-> ""]
    ELSE LET person == ResolvePerson(Head(tokens), PersonSearchResponse(Head(tokens)))
         IN  IF person.error # ""
             THEN [ids |-> << >>, lookups |-> n + 1, error |-> person.error]
             ELSE ResolveTokensLooksUpAll(Tail(tokens), MergeIds(ids, <<person.id>>), n + 1)

\* The loop of resolve_person_ids, lines 422-462, while the flag is clear:
\* the ids resolved, the name searches issued and the ValueError raised.
RECURSIVE ResolveTokens(_, _, _)
ResolveTokens(tokens, ids, n) ==
    IF tokens = << >> THEN [ids |-> ids, lookups |-> n, error |-> ""]
    ELSE IF UUID_PATTERN(Head(tokens))
    THEN ResolveTokens(Tail(tokens), MergeIds(ids, <<Head(tokens)>>), n)
    ELSE LET person == ResolvePerson(Head(tokens), PersonSearchResponse(Head(tokens)))
         IN  IF person.error # ""
             THEN [ids |-> << >>, lookups |-> n + 1, error |-> person.error]
             ELSE ResolveTokens(Tail(tokens), MergeIds(ids, <<person.id>>), n + 1)

resolve_person_ids(parts) == ResolveTokens(parse_people_input(parts), << >>, 0)

\* The parts a people text is made of.
PartTexts ==
    {"u1", "u2", " u3 ", "u1 # Jo", "u2 - Ann", "# note", "", " ",
     "Jo", "Jo # friend", "Ann", "Alex", "Zed"}

PeopleTexts == UNION {[1..n -> PartTexts] : n \in 0..MaxParts}

NoResolution == [ids |-> << >>, lookups |-> 0, error |-> "none"]

InitTokens ==
    /\ cfg = Config("", << <<"Christmas", "Christmas">> >>, << >>, <<2023, 2023>>,
                    <<2023, 12, 25>>, FALSE, 0,
                    [people |-> << >>, mode |-> "any", filters |-> ""])
    /\ InitRun
    /\ runs_left = 1
    /\ fn \in {[parts |-> t, stage |-> 0, out |-> NoResolution, again |-> NoResolution] :
                 t \in PeopleTexts}

\* resolve_person_ids resolves the people text.
ApplyResolveIds ==
    /\ fn.stage = 0
    /\ fn' = [fn EXCEPT !.stage = 1, !.out = resolve_person_ids(fn.parts)]
    /\ UNCHANGED <<cfg, pc, stop_event, gui, queue, repo, people, loop, search, hist>>

\* resolve_person_ids resolves the text made of the ids it returned.
ApplyResolveAgain ==
    /\ fn.stage = 1
    /\ fn.out.error = ""
    /\ fn' = [fn EXCEPT !.stage = 2, !.again = resolve_person_ids(fn.out.ids)]
    /\ UNCHANGED <<cfg, pc, stop_event, gui, queue, repo, people, loop, search, hist>>

NextTokens == ApplyResolveIds \/ ApplyResolveAgain

SpecTokens == InitTokens /\ [][NextTokens]_vars

\* ------------------------------------------------------------------ claims
Last(seq) == seq[Len(seq)]

\* The status events the worker put: all but the launcher's "Cancelling...".
WorkerStatuses == SelectSeq(statuses, LAMBDA text : text # "Cancelling...")

Span == cfg.end_year - cfg.start_year + 1

\* The tasks of a run, as <<target, iteration>>: every holiday with every year
\* of the range, the specific date with every year or once.
ExpectedTasks ==
    {<<t, i>> \in (DOMAIN Targets) \X (0..(Span - 1)) :
        Targets[t][1] = "Specific Date" /\ ~cfg.specific_date_all_years => i = 0}

ExpectedTotal ==
    Cardinality({it \in Range(cfg.selected_items) : it[1] # "Specific Date"}) * Span
      + (IF HasSpecific(cfg.selected_items)
         THEN (IF cfg.specific_date_all_years THEN Span ELSE 1)
         ELSE 0)

\* C1 (as claimed): no network call is issued while stop_event is set.
C1_NoCallOnceCancelled == \A i \in DOMAIN calls : ~calls[i].stop

\* C2 (as claimed): a run in which a poll saw stop_event set ends Cancelled.
C2_ObservedEndsCancelled == (pc = "done" /\ observed) => outcome = "Cancelled"

\* C3: once an error is raised inside the try block, run_search is over with
\* an "Error" status: no further task step, no further network call, and
\* nothing is taken out of an album, then or ever.
C3_ErrorStopsRun ==
    /\ [](raised => /\ pc = "done"
                    /\ outcome = "Failed"
                    /\ WorkerStatuses # << >>
                    /\ Last(WorkerStatuses) = "Error")
    /\ [][raised => (calls' = calls /\ steps' = steps /\ albums' = albums)]_vars
    /\ [][attached \subseteq attached']_vars

C3_Witness ==
    /\ raised /\ attached # {} /\ Len(steps) >= 2
    /\ \A i \in DOMAIN statuses : statuses[i] # "Failed"

\* The complete result of a search for one person in the window of the task.
PersonResult(person_id) ==
    {n \in StoredAssets(uploaded) :
        /\ ToOrdinal(window[1]) <= ToOrdinal(AssetTaken(n))
        /\ ToOrdinal(AssetTaken(n)) < ToOrdinal(window[2])
        /\ person_id \in AssetPeople(n)}

\* C4: a composite search for two or more people that was not cancelled
\* yields the union ("any") or the intersection ("all") of the complete
\* results per person, whatever the order of the person ids.
C4_Composition ==
    (pc = "attach" /\ Len(combined_person_ids) >= 2 /\ ~stop_event) =>
        LET results == [p \in Range(combined_person_ids) |-> PersonResult(p)]
        IN  Range(asset_ids) =
                IF NormalizeMode(cfg.people_match_mode) = "all"
                THEN {n \in StoredAssets(uploaded) : \A p \in DOMAIN results : n \in results[p]}
                ELSE UNION {results[p] : p \in DOMAIN results}

C4_Witness ==
    /\ pc = "attach" /\ ~stop_event
    /\ combined_person_ids = <<"u2", "u1">>
    /\ NormalizeMode(cfg.people_match_mode) = "all"
    /\ asset_ids # << >>
    /\ PersonResult("u1") # PersonResult("u2")

WindowWidth == ToOrdinal(fn.out[2]) - ToOrdinal(fn.out[1])

\* C5 (as claimed): the window is 1 day wide for delta = 0 and 2 * delta + 1
\* days wide for delta > 0.
C5_WidthAsClaimed ==
    fn.done => WindowWidth = (IF fn.delta = 0 THEN 1 ELSE 2 * fn.delta + 1)

\* C5 (amended): the window is 1 day wide for delta = 0, from the midnight of
\* d to the next; for delta > 0 it runs from the midnight delta days before d
\* to the midnight delta days after d, 2 * delta days wide.
C5_Width ==
    fn.done =>
        /\ WindowWidth = (IF fn.delta = 0 THEN 1 ELSE 2 * fn.delta)
        /\ ToOrdinal(fn.out[1]) = ToOrdinal(fn.base) - fn.delta
        /\ ValidDate(fn.out[1].year, fn.out[1].month, fn.out[1].day)
        /\ ValidDate(fn.out[2].year, fn.out[2].month, fn.out[2].day)

C5_Witness ==
    /\ fn.done /\ fn.delta = 7 /\ fn.base = Date(2023, 12, 25)
    /\ fn.out = <<Date(2023, 12, 18), Date(2024, 1, 1)>>

\* C6: the published total is the number of tasks, and a run that ends
\* Completed did each task once, in order, as a search and then an attach
\* step, and reported current = total last before the reset.
C6_TaskCount ==
    /\ progress # << >> => progress[1] = <<0, ExpectedTotal>>
    /\ ExpectedTotal = Cardinality(ExpectedTasks)
    /\ outcome = "Completed" =>
          /\ Len(steps) = 2 * ExpectedTotal
          /\ {<<steps[k][2], steps[k][3]>> : k \in DOMAIN steps} = ExpectedTasks
          /\ \A k \in 1..ExpectedTotal :
                /\ steps[2 * k - 1][1] = "search"
                /\ steps[2 * k] = <<"attach", steps[2 * k - 1][2], steps[2 * k - 1][3]>>
          /\ Len(progress) = ExpectedTotal + 2
          /\ progress[Len(progress) - 1] = <<ExpectedTotal, ExpectedTotal>>

C6_Witness ==
    /\ outcome = "Completed"
    /\ HasSpecific(cfg.selected_items) /\ ~cfg.specific_date_all_years
    /\ Len(steps) = 6

\* C7 (as claimed): no network call is issued before the total is published.
C7_TotalBeforeAnyCall == \A i \in DOMAIN calls : calls[i].published

\* C7 (amended): the total is published as the first progress event before
\* any album or asset call; the person lookups are issued before it.
C7_TotalBeforeAlbumCalls ==
    /\ \A i \in DOMAIN calls : calls[i].published <=> calls[i].op # "person_search"
    /\ progress # << >> => progress[1] = <<0, ExpectedTotal>>

C7_Witness ==
    /\ \E i \in DOMAIN calls : calls[i].op = "person_search"
    /\ \E i \in DOMAIN calls : calls[i].op = "asset_search"

\* C8 (as claimed): when a run is over, the last progress event is (0, 0).
C8_ResetAlways == pc = "done" => (progress # << >> /\ Last(progress) = <<0, 0>>)

\* C8 (amended): a run that ends inside the try block (Completed, Cancelled,
\* Failed) emits (0, 0) last; a run that ends before it emits no progress
\* event at all.
C8_Reset ==
    pc = "done" =>
        IF outcome \in {"Completed", "Cancelled", "Failed"}
        THEN progress # << >> /\ Last(progress) = <<0, 0>>
        ELSE progress = << >>

C8_Witness == pc = "done" /\ outcome = "Cancelled" /\ Len(progress) >= 3

\* The album list positions that hold the name exactly.
ExactHits(album_name) == {i \in DOMAIN albums : albums[i].albumName = album_name}

\* C9: for each album name at most one creation call is issued, none when the
\* name was in the list before the run, and every lookup of the name returned
\* the id of the first album of the list with exactly that name.
C9_LookupBeforeCreate ==
    /\ \A i, j \in DOMAIN calls :
          (calls[i].op = "album_create" /\ calls[j].op = "album_create"
             /\ calls[i].arg = calls[j].arg) => i = j
    /\ \A i \in DOMAIN calls :
          calls[i].op = "album_create" =>
             \A k \in DOMAIN cfg.albums : cfg.albums[k].albumName # calls[i].arg
    /\ \A t \in DOMAIN lookups :
          /\ ExactHits(Targets[t][2]) # {}
          /\ \A i \in ExactHits(Targets[t][2]) :
                (\A j \in ExactHits(Targets[t][2]) : i <= j) => lookups[t] = albums[i].id

C9_Witness ==
    /\ Len(lookups) = 2
    /\ Targets[1][2] = Targets[2][2]
    /\ \E i \in DOMAIN calls : calls[i].op = "album_create"

\* C10: the album of a target is looked up at most once, and once in a run
\* that completes, before the first search of the target, and every attach
\* call of the target carries the id that lookup returned.
C10_AlbumOncePerTarget ==
    /\ \A i, j \in DOMAIN calls :
          (calls[i].op \in {"album_list", "album_create"} /\ calls[j].op = calls[i].op
             /\ calls[i].target = calls[j].target) => i = j
    /\ \A i \in DOMAIN calls :
          calls[i].op \in {"asset_search", "album_attach"} =>
             /\ calls[i].target \in DOMAIN lookups
             /\ \E j \in 1..(i - 1) :
                   calls[j].op = "album_list" /\ calls[j].target = calls[i].target
    /\ \A i \in DOMAIN calls :
          calls[i].op = "album_attach" => calls[i].arg.album = lookups[calls[i].target]
    /\ \A k \in DOMAIN steps : steps[k][2] \in DOMAIN lookups
    /\ outcome = "Completed" => Len(lookups) = Len(Targets)

C10_Witness ==
    \E i, j \in DOMAIN calls :
        /\ i < j
        /\ calls[i].op = "album_attach" /\ calls[j].op = "album_attach"
        /\ calls[i].target = 2 /\ calls[j].target = 2

\* How many entries of a log satisfy a test.
CountCalls(op) == Cardinality({i \in DOMAIN calls : calls[i].op = op})
CountSteps(kind) == Cardinality({k \in DOMAIN steps : steps[k][1] = kind})

\* C11: add_assets_to_album with an empty list issues no call and adds 0 to
\* the count; with a non-empty list it issues one PUT that carries the whole
\* list for the album of the task and, when the PUT answers, adds the length
\* of the list to the count.  No task issues more than one PUT.
C11_AttachOnce ==
    /\ [][(pc = "attach" /\ pc' # "attach") =>
            IF asset_ids = << >>
            THEN calls' = calls /\ total_assets_added' = total_assets_added
            ELSE /\ calls' =
                       Append(calls, Call("album_attach",
                                          [album |-> album_id, ids |-> asset_ids]))
                 /\ pc' = "year" =>
                       total_assets_added' = total_assets_added + Len(asset_ids)]_vars
    /\ [][pc # "attach" => CountCalls("album_attach")' = CountCalls("album_attach")]_vars
    /\ [](CountCalls("album_attach") <= CountSteps("attach"))

C11_Witness ==
    /\ pc = "year"
    /\ CountCalls("album_attach") = 1
    /\ CountSteps("attach") = 2
    /\ total_assets_added = page_size + 1

\* C12: no page request is issued with stop_event set; a search that finds
\* the flag set at the head of its loop returns the empty list to its caller
\* (run_search, or the intersection / union of the composite search), issues
\* no call, raises nothing and puts no status, whatever it has fetched.
C12_InterruptedSearch ==
    /\ [](\A i \in DOMAIN calls : calls[i].op = "asset_search" => ~calls[i].stop)
    /\ [][(pc = "page" /\ stop_event /\ pc' # "page") =>
            /\ calls' = calls
            /\ raised' = raised /\ outcome' = outcome /\ statuses' = statuses
            /\ IF Len(combined_person_ids) <= 1
               THEN pc' = "attach" /\ asset_ids' = << >>
               ELSE /\ pc' = "person"
                    /\ IF NormalizeMode(cfg.people_match_mode) = "all"
                       THEN intersection' = Some({})
                       ELSE union' = union]_vars

C12_Witness ==
    /\ pc = "attach" /\ observed /\ stop_event
    /\ Len(combined_person_ids) <= 1
    /\ current_page = 2 /\ Len(all_asset_ids) = page_size
    /\ asset_ids = << >>

\* C13 (as claimed): a composite search for two or more people in which a poll
\* saw stop_event set hands no asset to the attach step.
C13_CancelledCompositeIsEmpty ==
    (pc = "attach" /\ Len(combined_person_ids) >= 2 /\ observed) => asset_ids = << >>

NoDuplicates(seq) == \A i, j \in DOMAIN seq : seq[i] = seq[j] => i = j

\* C14 (as claimed): the ids a search hands to the attach step, and the ids of
\* every attach call, hold no asset id twice.
C14_NoDuplicateIds ==
    /\ pc = "attach" => NoDuplicates(asset_ids)
    /\ \A i \in DOMAIN calls : calls[i].op = "album_attach" => NoDuplicates(calls[i].arg.ids)

\* C15: every page request has size 100; a request for a page other than 1
\* directly follows the request for the page before it, with the same window
\* and filters, which was answered with 100 items.  A page loop that is not
\* cancelled requests the page it is at; after fewer than 100 items (none
\* included) it leaves the loop and returns the ids of all pages fetched, in
\* order; after 100 items it keeps them and goes to the next page.
C15_Pagination ==
    /\ [](\A i \in DOMAIN calls :
            calls[i].op = "asset_search" =>
               /\ calls[i].arg.size = 100
               /\ calls[i].arg.page >= 1
               /\ calls[i].arg.page # 1 =>
                     /\ i > 1
                     /\ calls[i - 1].op = "asset_search"
                     /\ calls[i] = [calls[i - 1] EXCEPT !.arg.page = @ + 1]
                     /\ Len(SearchResponse(calls[i - 1].arg, uploaded)) = 100)
    /\ [][(pc = "page" /\ calls' # calls /\ raised' = raised) =>
            LET payload == Last(calls').arg
                assets  == SearchResponse(payload, uploaded)
                result  == all_asset_ids \o assets
            IN  /\ Len(calls') = Len(calls) + 1
                /\ Last(calls').op = "asset_search"
                /\ payload.page = current_page
                /\ Len(all_asset_ids) = (current_page - 1) * 100
                /\ IF Len(assets) = 100
                   THEN /\ pc' = "page"
                        /\ current_page' = current_page + 1
                        /\ all_asset_ids' = result
                   ELSE /\ pc' # "page"
                        /\ IF Len(combined_person_ids) <= 1
                           THEN asset_ids' = result
                           ELSE IF NormalizeMode(cfg.people_match_mode) = "all"
                           THEN intersection'.ids \subseteq Range(result)
                           ELSE Range(result) \subseteq union']_vars

C15_Witness ==
    /\ pc = "attach" /\ ~observed
    /\ current_page = 2
    /\ Len(asset_ids) = page_size + 1
    /\ Last(calls).arg.page = 2

\* The window run_search computes for the task the loops are at.
TaskWindow == get_date_range(BaseDate(Target).date, cfg.delta_days)

\* C16: every page request carries the window of its task as takenAfter and
\* takenBefore, the page the loop is at and size 100, also when the filters
\* of the caller give these keys other values; the other keys of the filters
\* are passed on.
C16_ReservedKeys ==
    /\ [](pc \in {"person", "page", "attach"} => window = TaskWindow)
    /\ [][calls' # calls /\ Last(calls').op = "asset_search" =>
            LET payload == Last(calls').arg
            IN  /\ payload.takenAfter = TaskWindow[1]
                /\ payload.takenBefore = TaskWindow[2]
                /\ payload.page = current_page
                /\ payload.size = 100
                /\ \A k \in DOMAIN additional_filters :
                      k \notin {"takenAfter", "takenBefore", "page", "size"} =>
                         payload[k] = additional_filters[k]]_vars

C16_Witness ==
    /\ cfg.additional_filters_text = ReservedKeysText
    /\ calls # << >>
    /\ Last(calls).op = "asset_search"
    /\ additional_filters.page = 7
    /\ Last(calls).arg.page = 2
    /\ Last(calls).arg.isFavorite

\* The personIds the filters of the caller give, when they are a list.
FilterPersonIds ==
    LET dict == parse_additional_filters_json(cfg.additional_filters_text)[1]
    IN  IF "personIds" \in DOMAIN dict /\ IsListOfStrings(dict.personIds)
        THEN dict.personIds.items
        ELSE << >>

FirstPageCalls ==
    Cardinality({i \in DOMAIN calls : calls[i].op = "asset_search" /\ calls[i].arg.page = 1})

\* C17: once run_search has read its inputs the base filters hold no
\* personIds key and the ids the caller gave there are in the merged list,
\* which no later step changes the filters for; every page request has no
\* personIds key when the merged list is empty and otherwise personIds = [p]
\* for one p of the merged list; with at most one merged id the loop over
\* the people is never entered and each task runs one paginated search.
C17_PersonIdsMerged ==
    /\ [](pc \notin {"idle", "start"} =>
            /\ "personIds" \notin DOMAIN additional_filters
            /\ Range(FilterPersonIds) \subseteq Range(combined_person_ids))
    /\ [][pc \notin {"idle", "start"} => additional_filters' = additional_filters]_vars
    /\ [][pc \notin {"idle", "start", "resolve"} =>
            combined_person_ids' = combined_person_ids]_vars
    /\ [](\A i \in DOMAIN calls :
            calls[i].op = "asset_search" =>
               IF combined_person_ids = << >>
               THEN "personIds" \notin DOMAIN calls[i].arg
               ELSE \E p \in Range(combined_person_ids) : calls[i].arg.personIds = <<p>>)
    /\ [](Len(combined_person_ids) <= 1 =>
            /\ pc # "person"
            /\ FirstPageCalls <= CountSteps("search"))

C17_Witness ==
    /\ outcome = "Completed"
    /\ cfg.people = <<"u2">>
    /\ FilterPersonIds = <<"u2">>
    /\ cfg.people_match_mode = "all"
    /\ combined_person_ids = <<"u2">>
    /\ FirstPageCalls = 1
    /\ Last(calls).op = "album_attach"

\* The first occurrences of a list, in their order.
FirstSeen(seq) ==
    LET idx == SelectSeq([i \in 1..Len(seq) |-> i],
                         LAMBDA i : \A j \in 1..(i - 1) : seq[j] # seq[i])
    IN  [k \in 1..Len(idx) |-> seq[idx[k]]]

\* The id each token of the people text stands for.
TokenIds ==
    [i \in 1..Len(Tokens) |->
        IF UUID_PATTERN(Tokens[i]) THEN Tokens[i]
        ELSE ResolvePerson(Tokens[i], PersonSearchResponse(Tokens[i])).id]

\* C18: the merged person id list never holds an id twice; once the people
\* filter is resolved it is the list of the first occurrences of the ids of
\* the filters followed by the ids of the tokens of the people text (of the
\* filters alone when the resolution was cancelled).
C18_MergedOrder ==
    /\ NoDuplicates(combined_person_ids)
    /\ NoDuplicates(resolved_ids)
    /\ (pc \notin {"idle", "start", "resolve"} /\ outcome \notin {"Rejected", "Crashed"}) =>
          combined_person_ids =
              FirstSeen(FilterPersonIds \o
                        (IF token_index > Len(Tokens) THEN TokenIds ELSE << >>))

C18_Witness ==
    /\ pc = "total"
    /\ FilterPersonIds = <<"u2", "u3", "u2">>
    /\ Tokens = <<"Jo", "u3", "Ann", "u1">>
    /\ combined_person_ids = <<"u2", "u3", "u1">>

\* The candidates whose trimmed name is the token, case ignored.
ExactIndexes(token, matches) ==
    {i \in DOMAIN matches : Lower(Strip(matches[i].name)) = Lower(token)}

\* The candidate the four cases of the claim pick: 0 when none.
Picked(token, matches) ==
    LET exact == ExactIndexes(token, matches)
    IN  IF Cardinality(exact) = 1 THEN CHOOSE i \in exact : TRUE
        ELSE IF exact = {} /\ Len(matches) = 1 THEN 1
        ELSE 0

\* C19 (as claimed): no candidate gives a not-found error, a picked
\* candidate is the result, every other list gives an ambiguity error.
C19_ResolutionAsClaimed ==
    fn.done =>
        LET i == Picked(fn.token, fn.matches)
        IN  IF fn.matches = << >> THEN fn.out.error = "No person found"
            ELSE IF i # 0 THEN fn.out.error = "" /\ fn.out.id = fn.matches[i].id
            ELSE fn.out.error = "ambiguous"

\* C19 (amended): as claimed when the picked candidate has an id; a picked
\* candidate without an id gives a missing-id error.
C19_Resolution ==
    fn.done =>
        LET i == Picked(fn.token, fn.matches)
        IN  IF fn.matches = << >> THEN fn.out.error = "No person found"
            ELSE IF i # 0 /\ fn.matches[i].id # ""
            THEN fn.out.error = "" /\ fn.out.id = fn.matches[i].id
            ELSE IF i # 0 THEN fn.out.error = "missing id" /\ fn.out.id = ""
            ELSE fn.out.error = "ambiguous" /\ fn.out.id = ""

C19_Witness ==
    /\ fn.done
    /\ fn.token = "Jo"
    /\ fn.matches = << [id |-> "u2", name |-> "Jo Ann"], [id |-> "u1", name |-> "Jo"] >>
    /\ fn.out.id = "u1"

\* The answer to a name search is ambiguous for the token, as the claim puts
\* it: several candidates of that exact name, or several and none exact.
AmbiguousFor(token, matches) ==
    \/ Cardinality(ExactIndexes(token, matches)) >= 2
    \/ ExactIndexes(token, matches) = {} /\ Len(matches) >= 2

\* C20: when the name search for a token answers and the answer is ambiguous,
\* resolve_person_ids raises the ambiguity error, whose list holds every
\* candidate name and none twice; the run stops with an Error status, and no
\* album or asset call and no progress event is issued, then or later.
C20_AmbiguousAborts ==
    /\ [](\A i \in DOMAIN calls :
            (/\ calls[i].op = "person_search"
             /\ AmbiguousFor(calls[i].arg, PersonSearchResponse(calls[i].arg))
             /\ outcome # "Crashed") =>
                LET matches == PersonSearchResponse(calls[i].arg)
                IN  /\ value_error.error = "ambiguous"
                    /\ Range(value_error.names) = {matches[k].name : k \in DOMAIN matches}
                    /\ NoDuplicates(value_error.names))
    /\ [](value_error.error = "ambiguous" =>
            /\ pc = "done"
            /\ outcome = "Rejected"
            /\ Last(WorkerStatuses) = "Error"
            /\ progress = << >>
            /\ albums = cfg.albums /\ attached = {}
            /\ \A i \in DOMAIN calls : calls[i].op = "person_search")

C20_Witness ==
    /\ value_error.error = "ambiguous"
    /\ value_error.names = <<"Alex">>
    /\ Last(calls).arg = "Alex"

C20_WitnessNoneExact ==
    /\ value_error.error = "ambiguous"
    /\ value_error.names = <<"Jo", "Jo Ann">>
    /\ Len(calls) = 1

\* C22: the Run button is enabled only while no worker is inside run_search,
\* and the step that starts a worker is taken only then: a worker is never
\* started while an earlier one is alive.
C22_OneWorker ==
    /\ [](run_button = "normal" => pc \in {"idle", "done"})
    /\ [][(run_button = "normal" /\ run_button' = "disabled") =>
            (pc \in {"idle", "done"} /\ pc' = "start")]_vars
    /\ [][(pc' = "start" /\ pc # "start") => run_button = "normal"]_vars

C22_Witness ==
    /\ runs_left < MaxRuns - 1
    /\ pc = "page"
    /\ albums # << >>

C21_WitnessNames ==
    /\ fn.stage = 2
    /\ fn.parts = <<"Ann", " u3 ", "Jo">>
    /\ fn.out = [ids |-> <<"u2", "u3", "u1">>, lookups |-> 2, error |-> ""]

\* C23: a step of the initiating side, one that changes a button or takes
\* a press of Run, never writes the cancellation flag.
C23_InitiatingSideLeavesFlag == [][gui' # gui => stop_event' = stop_event]_vars

\* The steps of the worker write the progress counters; the initiating side
\* leaves them.
C23_CountersWrittenByWorker ==
    [][gui' # gui /\ pc' # "start" =>
          <<total_tasks, current_progress, total_assets_added>>' =
          <<total_tasks, current_progress, total_assets_added>>]_vars

\* The status events that report an error.
ErrorStatuses ==
    SelectSeq(statuses, LAMBDA text : text \in {"Error", "Failed", "API base URL is not configured"})

\* C24: a run that an error ended has put exactly one status event for it.
C24_OneStatusPerError ==
    outcome \in {"Rejected", "Failed", "Crashed"} => Len(ErrorStatuses) = 1

\* An error met before the try block is reported once.
C24_OnceBeforeTry ==
    outcome \in {"Rejected", "Crashed"} => Len(ErrorStatuses) = 1

\* C25: in every year from 1900 to 2100 Thanksgiving is a date of that
\* year's November, a Thursday, with exactly three Thursdays of the month
\* before it: its day lies in 22..28.
C25_Thanksgiving ==
    (fn.done /\ fn.holiday_name = "Thanksgiving") =>
        /\ fn.out.ok
        /\ fn.out.date.year = fn.year /\ fn.out.date.month = 11
        /\ fn.out.date.day \in 22..28
        /\ Weekday(fn.out.date) = 3
        /\ Cardinality({d \in 1..(fn.out.date.day - 1) : Weekday(Date(fn.year, 11, d)) = 3}) = 3

C25_Witness ==
    /\ fn.done /\ fn.holiday_name = "Thanksgiving" /\ fn.year = 2023
    /\ fn.out = Ok(Date(2023, 11, 23))

\* Thanksgiving falls on its earliest and on its latest day.
C25_WitnessEarliest ==
    fn.done /\ fn.holiday_name = "Thanksgiving" /\ fn.out.ok /\ fn.out.date.day = 22

C25_WitnessLatest ==
    fn.done /\ fn.holiday_name = "Thanksgiving" /\ fn.out.ok /\ fn.out.date.day = 28

\* C26: Easter is March 31 in 2024 and April 20 in 2025; in every year from
\* 1900 to 2100 it is a date that exists, a Sunday, not before March 22 and
\* not after April 25.
C26_Easter ==
    (fn.done /\ fn.holiday_name = "Easter") =>
        /\ fn.out.ok
        /\ fn.year = 2024 => fn.out.date = Date(2024, 3, 31)
        /\ fn.year = 2025 => fn.out.date = Date(2025, 4, 20)
        /\ fn.out.date.year = fn.year
        /\ ValidDate(fn.out.date.year, fn.out.date.month, fn.out.date.day)
        /\ Weekday(fn.out.date) = 6
        /\ \/ fn.out.date.month = 3 /\ fn.out.date.day >= 22
           \/ fn.out.date.month = 4 /\ fn.out.date.day <= 25

C26_Witness ==
    /\ fn.done /\ fn.holiday_name = "Easter" /\ fn.year = 2025
    /\ fn.out = Ok(Date(2025, 4, 20))

\* Easter falls on its latest day (2038) and on March 23 (1913, 2008).
C26_WitnessLatest ==
    fn.done /\ fn.holiday_name = "Easter" /\ fn.out = Ok(Date(fn.year, 4, 25))

C26_WitnessEarly ==
    fn.done /\ fn.holiday_name = "Easter" /\ fn.out = Ok(Date(fn.year, 3, 23))

\* The number of people on the first i pages answered.
RECURSIVE ListedUpTo(_)
ListedUpTo(i) == IF i = 0 THEN 0 ELSE fn.responses[i].n + ListedUpTo(i - 1)

\* The i-th page answered is one the listing stops at.
StopsAt(i) ==
    LET r == fn.responses[i]
    IN  \/ r.n = 0
        \/ r.hasNextPage = "false"
        \/ r.total.int /\ ListedUpTo(i) >= r.total.value
        \/ r.hasNextPage = "absent" /\ r.n < 1000

\* The people of the pages answered, page by page.
FetchedPeople ==
    SelectSeq([i \in DOMAIN fn.responses |-> <<i, fn.responses[i].n>>], LAMBDA pg : pg[2] > 0)

PagesInOrder ==
    /\ \A i \in DOMAIN fn.requests : fn.requests[i] = [page |-> i, size |-> 1000]
    /\ \A i \in DOMAIN fn.responses : i < Len(fn.responses) => ~StopsAt(i)

\* The listing as claimed, failed requests left aside: it is over exactly
\* when the last page answered is one to stop at, and returns the people of
\* all pages answered.
C27_PaginationAsClaimed ==
    ~fn.failed =>
        /\ PagesInOrder
        /\ fn.done => /\ fn.responses # << >>
                      /\ StopsAt(Len(fn.responses))
                      /\ fn.out = FetchedPeople
        /\ ~fn.done => fn.responses = << >> \/ ~StopsAt(Len(fn.responses))

\* C27: while the cancellation flag is clear the listing requests the pages
\* 1, 2, ... with size 1000; it is over exactly when the last page answered
\* is empty, has hasNextPage false, brings the count to the total, or is
\* short with hasNextPage absent, and then returns the people of all pages
\* answered.  When the flag is found set before a request, no request is made
\* and the empty list is returned; a failed request ends the listing.
C27_Pagination ==
    /\ [](/\ PagesInOrder
          /\ Len(fn.requests) = Len(fn.responses) + (IF fn.failed THEN 1 ELSE 0)
          /\ ~(fn.failed /\ fn.cancelled)
          /\ (fn.done /\ fn.cancelled) => fn.out = << >>
          /\ (fn.done /\ ~fn.cancelled /\ ~fn.failed) =>
                /\ fn.responses # << >>
                /\ StopsAt(Len(fn.responses))
                /\ fn.out = FetchedPeople
          /\ ~fn.done =>
                /\ ~fn.failed /\ ~fn.cancelled
                /\ fn.page = Len(fn.responses) + 1
                /\ fn.responses = << >> \/ ~StopsAt(Len(fn.responses)))
    /\ [][fn'.cancelled /\ ~fn.cancelled => stop_event /\ fn'.requests = fn.requests]_vars
    /\ [][fn'.requests # fn.requests => ~stop_event]_vars

C27_Witness ==
    /\ fn.done /\ ~fn.cancelled /\ ~fn.failed
    /\ Len(fn.requests) = 2
    /\ fn.responses[1].hasNextPage = "true"
    /\ fn.out = << <<1, 1000>>, <<2, 1>> >>

\* A cancellation throws the people of a fetched page away.
C27_WitnessCancelled ==
    fn.done /\ fn.cancelled /\ fn.people = << <<1, 1000>> >> /\ fn.out = << >>

\* The listing stops because the count has reached the total, and goes on
\* after a short page that has hasNextPage true.
C27_WitnessTotal ==
    /\ fn.done /\ Len(fn.responses) = 2
    /\ fn.responses[1].n = 1
    /\ fn.responses[2] = [n |-> 1000, hasNextPage |-> "true", total |-> Total(1)]

\* The result of the composite search of the task at hand when nothing
\* interrupts it: every asset of the window for no person, the assets of the
\* person for one, the union or the intersection over the people for more.
FullResult ==
    LET inWindow == {n \in StoredAssets(uploaded) :
                        /\ ToOrdinal(window[1]) <= ToOrdinal(AssetTaken(n))
                        /\ ToOrdinal(AssetTaken(n)) < ToOrdinal(window[2])}
        ids == Range(combined_person_ids)
    IN  IF NormalizeMode(cfg.people_match_mode) = "all" \/ Len(combined_person_ids) <= 1
        THEN {n \in inWindow : \A p \in ids : p \in AssetPeople(n)}
        ELSE {n \in inWindow : \E p \in ids : p \in AssetPeople(n)}

\* C28: the ids a task hands to its album, and the ids of every attach
\* request, are among the full result of the composite search of the task's
\* window, cancelled or not.
C28_AttachedWithinFull ==
    /\ [](pc = "attach" => Range(asset_ids) \subseteq FullResult)
    /\ [][(calls' # calls /\ Last(calls').op = "album_attach") =>
              Range(Last(calls').arg.ids) \subseteq FullResult]_vars

\* A cancelled task attaches some, not all, of the full result.
C28_Witness ==
    /\ observed
    /\ calls # << >> /\ Last(calls).op = "album_attach"
    /\ Last(calls).arg.ids # << >>
    /\ Range(Last(calls).arg.ids) # FullResult

\* The asset search requests of the run that name no person.
Unconstrained ==
    {i \in DOMAIN calls :
        /\ calls[i].op = "asset_search"
        /\ ("personIds" \notin DOMAIN calls[i].arg \/ calls[i].arg.personIds = << >>)}

\* The resolution of the people text was cut short by a cancellation.
ResolutionCutShort ==
    /\ pc \notin {"idle", "start", "resolve"}
    /\ outcome \notin {"Rejected", "Crashed"}
    /\ token_index <= Len(Tokens)

NoAssetSearch == \A i \in DOMAIN calls : calls[i].op # "asset_search"

\* The claim as stated: with a people text that is not empty every asset
\* search names a person.
C29_ConstraintAsClaimed ==
    /\ PeopleGiven => Unconstrained = {}
    /\ ResolutionCutShort => NoAssetSearch

\* C29: when the people text holds a token, every asset search request
\* names a person; once the resolution was cut short by a cancellation the
\* run issues no asset search request.
C29_Constraint ==
    /\ Tokens # << >> => Unconstrained = {}
    /\ ResolutionCutShort => NoAssetSearch

C29_Witness ==
    /\ ResolutionCutShort
    /\ pc = "done"
    /\ combined_person_ids = << >>

\* A search of a run whose people text holds names and UUIDs.
C29_WitnessSearch ==
    /\ Tokens = <<"Jo", "u2">>
    /\ calls # << >> /\ Last(calls).op = "asset_search"

\* C30: a flag set while the worker of the run is alive stays set as long
\* as this worker is alive.
C30_CancelNeverLost ==
    [][(stop_event /\ pc \notin {"idle", "done"}) => stop_event']_vars

\* Once the worker has cleared the flag, a flag set stays set until the
\* worker is over, and a run that polls it set makes no further request.
C30_KeptAfterClear ==
    [][(stop_event /\ pc \notin {"idle", "start", "done"}) => stop_event']_vars

\* C36: in every year from 1900 to 2100 Memorial Day is a date of that
\* year's May, a Monday, and the day a week later lies in June.
C36_MemorialDay ==
    (fn.done /\ fn.holiday_name = "Memorial Day") =>
        /\ fn.out.ok
        /\ fn.out.date.year = fn.year /\ fn.out.date.month = 5
        /\ fn.out.date.day \in 25..31
        /\ Weekday(fn.out.date) = 0
        /\ AddDays(fn.out.date, 7).month = 6

C36_Witness ==
    /\ fn.done /\ fn.holiday_name = "Memorial Day" /\ fn.year = 2024
    /\ fn.out = Ok(Date(2024, 5, 27))

\* Memorial Day falls on the last day of May and on May 25.
C36_WitnessLastDay ==
    fn.done /\ fn.holiday_name = "Memorial Day" /\ fn.out = Ok(Date(fn.year, 5, 31))

C36_WitnessEarliest ==
    fn.done /\ fn.holiday_name = "Memorial Day" /\ fn.out = Ok(Date(fn.year, 5, 25))

\* The texts a run can end with, by the way it ended.
TerminalStatuses ==
    CASE outcome = "Completed" -> {"Completed"}
      [] outcome = "Cancelled" -> {"Operation Cancelled"}
      [] outcome = "Failed"    -> {"Error"}
      [] outcome = "Rejected"  -> {"Error", "API base URL is not configured"}
      [] outcome = "Crashed"   -> {"Failed"}
      [] OTHER                 -> {}

\* The worker is over and every event it or the launcher put is on display.
Drained == pc = "done" /\ drained = <<Len(statuses), Len(progress)>>

\* C31: once the worker is over and the queue is empty, the status label
\* shows the terminal status of the run.
C31_TerminalStatusShown == Drained => status_var \in TerminalStatuses

\* The label shows the terminal status unless Cancel was pressed after the
\* worker had put it.
C31_ShownUnlessLateCancel ==
    (Drained /\ statuses[Len(statuses)] # "Cancelling...") => status_var \in TerminalStatuses

\* The progress events before the reset (0, 0), if it was put.
ProgressBody ==
    IF Len(progress) >= 2 /\ progress[Len(progress)] = <<0, 0>>
    THEN SubSeq(progress, 1, Len(progress) - 1)
    ELSE progress

\* C32: the progress events of a run are (0, T), (1, T), ... with T the
\* number of tasks and no value above T, followed at most by the reset
\* (0, 0), which is put last; each event after the first is put by the step
\* that finishes a task, which adds exactly one.
C32_ProgressEvents ==
    /\ [](/\ \A i \in DOMAIN ProgressBody :
                ProgressBody[i] = <<i - 1, ExpectedTotal>> /\ i - 1 <= ExpectedTotal
          /\ ProgressBody # progress => pc = "done"
          /\ ProgressBody # << >> => Len(ProgressBody) = current_progress + 1)
    /\ [][(pc = "attach" /\ pc' = "year") =>
            progress' = Append(progress, <<progress[Len(progress)][1] + 1,
                                           progress[Len(progress)][2]>>)]_vars
    /\ [][(progress' # progress /\ progress # << >> /\ pc' # "done") =>
            (pc = "attach" /\ pc' = "year")]_vars

C32_Witness ==
    /\ pc = "done" /\ outcome = "Cancelled"
    /\ progress = << <<0, 4>>, <<1, 4>>, <<2, 4>>, <<0, 0>> >>

C32_WitnessCompleted ==
    /\ pc = "done" /\ outcome = "Completed"
    /\ progress = << <<0, 2>>, <<1, 2>>, <<2, 2>>, <<0, 0>> >>

\* C33: in every run that is started delta days is not negative, and every
\* asset search request has takenAfter before takenBefore.
C33_WindowOrdered ==
    /\ pc # "idle" => cfg.delta_days >= 0
    /\ \A i \in DOMAIN calls :
          calls[i].op = "asset_search" =>
              ToOrdinal(calls[i].arg.takenAfter) < ToOrdinal(calls[i].arg.takenBefore)

\* With a delta that is not negative the requests have takenAfter first.
C33_OrderedWhenNotNegative ==
    cfg.delta_days >= 0 =>
        \A i \in DOMAIN calls :
            calls[i].op = "asset_search" =>
                ToOrdinal(calls[i].arg.takenAfter) < ToOrdinal(calls[i].arg.takenBefore)

\* A run over which nothing went wrong from outside: Cancel was not pressed,
\* no request failed, the filters and the people were taken.
Undisturbed ==
    /\ pc = "done"
    /\ outcome \notin {"Rejected", "Crashed"}
    /\ \A i \in DOMAIN statuses : statuses[i] \notin {"Cancelling...", "Failed"}

\* The years the specific date was searched in.
SpecificYears ==
    {cfg.start_year + steps[k][3] : k \in {j \in DOMAIN steps :
        steps[j][1] = "search" /\ Targets[steps[j][2]][1] = "Specific Date"}}

\* C34: with All years, an undisturbed run whose specific date exists
\* searches the date in every year of the range and ends Completed.
C34_AllYearsCompletes ==
    (/\ Undisturbed
     /\ HasSpecific(cfg.selected_items) /\ cfg.specific_date_all_years
     /\ strptime(cfg.specific_date_str).ok) =>
        /\ outcome = "Completed"
        /\ SpecificYears = cfg.start_year..cfg.end_year

\* The same for a date that is not February 29.
C34_CompletesOtherDays ==
    (/\ Undisturbed
     /\ HasSpecific(cfg.selected_items) /\ cfg.specific_date_all_years
     /\ strptime(cfg.specific_date_str).ok
     /\ cfg.specific_date_str # <<2024, 2, 29>>) =>
        /\ outcome = "Completed"
        /\ SpecificYears = cfg.start_year..cfg.end_year

\* The sum of the counts the attach steps returned: the length of the list
\* of every PUT.
RECURSIVE AttachedCount(_)
AttachedCount(n) ==
    IF n = 0 THEN 0
    ELSE AttachedCount(n - 1) +
         (IF calls[n].op = "album_attach" THEN Len(calls[n].arg.ids) ELSE 0)

\* The albums the run attached assets to.
AlbumsAttachedTo == {calls[i].arg.album : i \in {j \in DOMAIN calls : calls[j].op = "album_attach"}}

\* C35: a Completed run reports the sum of the counts of its attach steps
\* and the number of albums it attached assets to.
C35_CompletedReport ==
    outcome = "Completed" =>
        /\ CompletedReport.assets = AttachedCount(Len(calls))
        /\ CompletedReport.albums = Cardinality(AlbumsAttachedTo)

\* The asset total of the report is the sum of the counts; the album count
\* is the number of targets.
C35_ReportedNumbers ==
    outcome = "Completed" =>
        /\ CompletedReport.assets = AttachedCount(Len(calls))
        /\ CompletedReport.albums = Len(Targets)
        /\ Cardinality(AlbumsAttachedTo) <= Cardinality(Range(lookups))
        /\ Cardinality(Range(lookups)) <= CompletedReport.albums

\* Two targets of one album name are reported as two albums.
C35_WitnessSharedAlbum ==
    /\ outcome = "Completed"
    /\ CompletedReport.albums = 2
    /\ Cardinality(Range(lookups)) = 1
    /\ Cardinality(AlbumsAttachedTo) = 1

\* The state of the run as the three terminal states name it: an error
\* before the try block and an exception nothing catches are failures.
RunState ==
    CASE outcome = "none" -> "Running"
      [] outcome \in {"Failed", "Rejected", "Crashed"} -> "Failed"
      [] OTHER -> outcome

\* C37: a run that was started reaches the end of run_search in one of the
\* states Completed, Cancelled or Failed, and stays in that state: no loop
\* of the run, the paginated search among them, goes on for ever.
C37_Terminates ==
    /\ (pc # "idle") ~> (pc = "done" /\ RunState \in {"Completed", "Cancelled", "Failed"})
    /\ [](pc = "done" <=> RunState # "Running")
    /\ [][outcome # "none" => outcome' = outcome]_vars

C37_Witness ==
    /\ pc = "done" /\ outcome = "Completed"
    /\ \E i \in DOMAIN calls : calls[i].op = "asset_search" /\ calls[i].arg.page = 2

====
